--------------------------- MODULE ProfilesProofs ---------------------------
(***************************************************************************)
(* Proofs about Profiles, for any account types, addresses, avatars and    *)
(* devices, any number of calls, and however these overlap and fail.       *)
(***************************************************************************)
EXTENDS Profiles, TLAPS

Fields ==
  {"onboardingStep", "onboardingCompleted", "accountType", "profilePhoto",
   "email", "isEmailVerified", "fcmTokens"}

UserTyped(u) ==
  /\ DOMAIN u = Fields
  /\ u.onboardingStep \in 0 .. 4
  /\ u.onboardingCompleted \in BOOLEAN
  /\ u.accountType \in AccountTypes \cup {Nothing}
  /\ u.profilePhoto \in Files \cup {External, Nothing}
  /\ u.isEmailVerified \in BOOLEAN

CallTyped(d) ==
  /\ DOMAIN d = {"pc", "writes", "file", "previous", "tokens", "unreached", "across"}
  /\ d.pc \in PCs
  /\ d.file \in Files \cup {Nothing}
  /\ d.previous \in Files \cup {External, Nothing}
  /\ d.across \in BOOLEAN

\* What a call may save: never a device, never the end of a step that was done.
WritesTyped(w) ==
  /\ DOMAIN w \subseteq Fields \ {"fcmTokens"}
  /\ "onboardingStep" \in DOMAIN w => w.onboardingStep \in 1 .. 4
  /\ "onboardingCompleted" \in DOMAIN w => w.onboardingCompleted = TRUE
  /\ "accountType" \in DOMAIN w =>
       \/ w.accountType \in AccountTypes
       \/ w.accountType = Nothing /\ "onboardingStep" \notin DOMAIN w
  /\ "profilePhoto" \in DOMAIN w => w.profilePhoto \in Files \cup {External, Nothing}
  /\ "isEmailVerified" \in DOMAIN w => w.isEmailVerified = FALSE

Saving(c) == calls[c].pc = "save"

Typed ==
  /\ UserTyped(user)
  /\ DOMAIN files = Files
  /\ \A f \in Files : files[f] \in {"unused", "stored", "deleted"}
  /\ DOMAIN calls = CallIds
  /\ \A c \in CallIds : CallTyped(calls[c])
  /\ \A c \in CallIds : Saving(c) => WritesTyped(calls[c].writes)
  /\ misled \in BOOLEAN /\ cleared \in BOOLEAN /\ outdated \in BOOLEAN

TypeKept == user.accountType # Nothing \/ cleared

\* The third step brings the account type; from then on the profile form alone may
\* unset it.
WizardUser ==
  /\ user.onboardingStep \in {3, 4} \/ user.onboardingCompleted => TypeKept
  /\ user.onboardingStep = 4 => user.onboardingCompleted

\* A step that is about to be saved brings the type, or found it: it is still there,
\* or was unset meanwhile.
WizardWrites(w) ==
  /\ "onboardingStep" \in DOMAIN w /\ w.onboardingStep \in {3, 4}
       => "accountType" \in DOMAIN w \/ TypeKept
  /\ "onboardingCompleted" \in DOMAIN w => TypeKept
  /\ "onboardingStep" \in DOMAIN w /\ w.onboardingStep = 4
       => "onboardingCompleted" \in DOMAIN w

WizardInv ==
  /\ WizardUser
  /\ \A c \in CallIds : Saving(c) => WizardWrites(calls[c].writes)

\* An address about to be saved takes the verification with it, unless there is
\* none, or one came meanwhile.
MailInv ==
  /\ VerifiedIsCurrent
  /\ \A c \in CallIds :
       Saving(c) /\ "email" \in DOMAIN calls[c].writes /\ ~calls[c].across
         => "isEmailVerified" \in DOMAIN calls[c].writes \/ ~user.isEmailVerified

\* Until an upload saves it, its avatar is known to this upload only.
Unknown(f, e) ==
  /\ calls[e].file # f
  /\ Saving(e) /\ "profilePhoto" \in DOMAIN calls[e].writes
       => calls[e].writes.profilePhoto # f

Fresh(c) ==
  LET f == calls[c].file
  IN f \in Files =>
       /\ files[f] = "stored"
       /\ user.profilePhoto # f
       /\ \A e \in CallIds : calls[e].previous # f /\ (e # c => Unknown(f, e))

\* What each stage of an upload knows of the avatars.
Upload(c) ==
  LET d == calls[c]
  IN /\ d.pc \in {"findPrevious", "delete", "findUser"} => d.file \in Files
     /\ d.pc \in {"idle", "send", "clean"} => d.file = Nothing /\ d.previous = Nothing
     /\ d.pc = "delete" => d.previous \in Files
     /\ d.previous \in Files => files[d.previous] # "unused"
     /\ d.pc = "save" /\ d.file \in Files =>
          "profilePhoto" \in DOMAIN d.writes /\ d.writes.profilePhoto = d.file
     /\ d.pc = "save" /\ d.file \notin Files =>
          /\ d.previous = Nothing
          /\ "profilePhoto" \in DOMAIN d.writes /\ d.writes.profilePhoto \in Files
               => files[d.writes.profilePhoto] # "unused"

PhotoInv ==
  /\ PhotoIsStored
  /\ user.profilePhoto \in Files => files[user.profilePhoto] # "unused"
  /\ \A c \in CallIds : Fresh(c) /\ Upload(c)

PushInv ==
  \A c \in CallIds :
    calls[c].pc = "clean" => calls[c].tokens \subseteq forgotten \cup calls[c].unreached

ProfileInv == Typed /\ WizardInv /\ MailInv /\ PhotoInv /\ PushInv

-----------------------------------------------------------------------------

(* The user's document. *)

\* save() writes the changed fields and keeps the others.
LEMMA SaveFacts ==
  ASSUME Typed, NEW c \in CallIds, Save(c)
  PROVE  /\ Saving(c) /\ WritesTyped(calls[c].writes)
         /\ DOMAIN user' = Fields
         /\ \A f \in Fields :
              user'[f] = IF f \in DOMAIN calls[c].writes THEN calls[c].writes[f] ELSE user[f]
         /\ calls' = [calls EXCEPT ![c] = NoCall]
         /\ UNCHANGED <<files, forgotten, confirmed, cut>>
         /\ misled' = IF "email" \in DOMAIN calls[c].writes THEN calls[c].across ELSE misled
  BY DEF Typed, UserTyped, Save, At, End, Saving, Written

\* What save() does to the histories of the forms.
LEMMA SaveHistory ==
  ASSUME Typed, NEW c \in CallIds, Save(c)
  PROVE  LET w == calls[c].writes
         IN /\ cleared' \in BOOLEAN /\ outdated' \in BOOLEAN
            /\ "accountType" \notin DOMAIN w => cleared' = cleared
            /\ /\ "accountType" \in DOMAIN w /\ w.accountType = Nothing
               /\ "onboardingStep" \notin DOMAIN w
               => cleared'
            /\ "profilePhoto" \notin DOMAIN w => outdated' = outdated
            /\ /\ "profilePhoto" \in DOMAIN w /\ w.profilePhoto \in Files
               /\ calls[c].file = Nothing /\ files[w.profilePhoto] = "deleted"
               => outdated'
<1>1. PICK w : w = calls[c].writes
  OBVIOUS
<1>2. /\ cleared' = IF "accountType" \in DOMAIN w
                    THEN ~("onboardingStep" \in DOMAIN w) /\ w.accountType = Nothing
                    ELSE cleared
      /\ outdated' = IF "profilePhoto" \in DOMAIN w
                     THEN /\ calls[c].file = Nothing
                          /\ w.profilePhoto \in Files
                          /\ files[w.profilePhoto] = "deleted"
                     ELSE outdated
  BY <1>1 DEF Save, Written
<1>3. cleared \in BOOLEAN /\ outdated \in BOOLEAN
  BY DEF Typed
<1>4. QED
  BY <1>1, <1>2, <1>3

\* A call that ends or starts changes no other call.
LEMMA OneCall ==
  ASSUME Typed, NEW c \in CallIds, NEW d, calls' = [calls EXCEPT ![c] = d]
  PROVE  /\ DOMAIN calls' = CallIds
         /\ calls'[c] = d
         /\ \A e \in CallIds \ {c} : calls'[e] = calls[e]
  BY DEF Typed

LEMMA NoCallFacts ==
  /\ CallTyped(NoCall)
  /\ NoCall.pc = "idle" /\ NoCall.file = Nothing /\ NoCall.previous = Nothing
  BY DEF CallTyped, NoCall, PCs

LEMMA StartFacts ==
  ASSUME Typed, NEW c \in CallIds, NEW edited, StartSave(c, edited)
  PROVE  /\ UNCHANGED <<user, files, forgotten, confirmed, misled, cut, cleared, outdated>>
         /\ DOMAIN calls' = CallIds
         /\ CallTyped(calls'[c])
         /\ calls[c].pc = "idle"
         /\ calls'[c].pc = "save" /\ calls'[c].writes = Changes(edited)
         /\ calls'[c].file = Nothing /\ calls'[c].previous = Nothing
         /\ \A e \in CallIds \ {c} : calls'[e] = calls[e]
<1>1. calls' = [calls EXCEPT ![c] = [NoCall EXCEPT !.pc = "save", !.writes = Changes(edited)]]
  BY DEF StartSave
<1>2. PICK d : d = [NoCall EXCEPT !.pc = "save", !.writes = Changes(edited)]
  OBVIOUS
<1>3. /\ CallTyped(d)
      /\ d.pc = "save" /\ d.writes = Changes(edited)
      /\ d.file = Nothing /\ d.previous = Nothing
  BY <1>2 DEF CallTyped, NoCall, PCs
<1>4. QED
  BY <1>1, <1>2, <1>3, OneCall DEF StartSave, At, mailHistory, formHistory

LEMMA ChangesFacts ==
  ASSUME UserTyped(user), NEW edited
  PROVE  /\ DOMAIN Changes(edited) = {f \in Fields : edited[f] # user[f]}
         /\ \A f \in DOMAIN Changes(edited) : Changes(edited)[f] = edited[f]
  BY DEF Changes, UserTyped

\* What a call may make of its copy of the user.
Edited(u) ==
  /\ u.fcmTokens = user.fcmTokens
  /\ u.onboardingStep \in 1 .. 4 \/ u.onboardingStep = user.onboardingStep
  /\ u.onboardingCompleted = TRUE \/ u.onboardingCompleted = user.onboardingCompleted
  /\ \/ u.accountType \in AccountTypes \/ u.accountType = user.accountType
     \/ u.accountType = Nothing /\ u.onboardingStep = user.onboardingStep
  /\ u.profilePhoto \in Files \cup {External, Nothing}
  /\ u.isEmailVerified = FALSE \/ u.isEmailVerified = user.isEmailVerified

LEMMA EditTyped ==
  ASSUME UserTyped(user), NEW edited, Edited(edited)
  PROVE  WritesTyped(Changes(edited))
<1>1. PICK w : w = Changes(edited)
  OBVIOUS
<1>2. /\ DOMAIN w = {f \in Fields : edited[f] # user[f]}
      /\ \A f \in DOMAIN w : w[f] = edited[f]
  BY <1>1, ChangesFacts
<1>3. DOMAIN w \subseteq Fields \ {"fcmTokens"}
  BY <1>2 DEF Edited
<1>4. /\ "onboardingStep" \in DOMAIN w => w.onboardingStep \in 1 .. 4
      /\ "onboardingCompleted" \in DOMAIN w => w.onboardingCompleted = TRUE
  BY <1>2 DEF Edited
<1>5. /\ "accountType" \in DOMAIN w =>
           \/ w.accountType \in AccountTypes
           \/ w.accountType = Nothing /\ "onboardingStep" \notin DOMAIN w
      /\ "profilePhoto" \in DOMAIN w => w.profilePhoto \in Files \cup {External, Nothing}
      /\ "isEmailVerified" \in DOMAIN w => w.isEmailVerified = FALSE
  BY <1>2 DEF Edited
<1>6. QED
  BY <1>1, <1>3, <1>4, <1>5 DEF WritesTyped

\* A photo that a form may set.
MayShow(photo) ==
  /\ photo \in Files \cup {External, Nothing}
  /\ photo \in Files =>
       files[photo] # "unused" /\ \A c \in CallIds : calls[c].file # photo

LEMMA PhotosFacts ==
  ASSUME NEW photo \in Photos, photo # Omitted
  PROVE  MayShow(photo)
  BY NothingAssumption DEF Photos, MayShow

\* What a step of the wizard makes of the user.
StepOf(u, step, type) ==
  /\ u.onboardingStep = step /\ step = user.onboardingStep + 1
  /\ step = 4 => u.onboardingCompleted = TRUE
  /\ step # 4 => u.onboardingCompleted = user.onboardingCompleted
  /\ user.onboardingCompleted = FALSE
  /\ u.accountType = IF step = 3 THEN type ELSE user.accountType
  /\ step = 3 => type \in AccountTypes
  /\ u.email = user.email /\ u.isEmailVerified = user.isEmailVerified
  /\ u.profilePhoto = user.profilePhoto \/ MayShow(u.profilePhoto)

LEMMA StepEdit ==
  ASSUME UserTyped(user), NEW step \in 1 .. 4, NEW type \in Types,
         NEW photo \in Photos, CanComplete(step, type),
         NEW u, u = Completed(step, type, photo)
  PROVE  Edited(u) /\ StepOf(u, step, type)
<1>1. step = user.onboardingStep + 1 /\ user.onboardingCompleted = FALSE
  BY DEF CanComplete, UserTyped
<1>2. step = 3 => type \in AccountTypes
  BY DEF CanComplete
<1>3. CASE step = 3
  <2>1. u = [user EXCEPT !.onboardingStep = 3, !.accountType = type]
    BY <1>3 DEF Completed
  <2>2. /\ u.onboardingStep = 3 /\ u.accountType = type
        /\ u.onboardingCompleted = user.onboardingCompleted
        /\ u.profilePhoto = user.profilePhoto /\ u.email = user.email
        /\ u.isEmailVerified = user.isEmailVerified /\ u.fcmTokens = user.fcmTokens
    BY <2>1 DEF UserTyped, Fields
  <2>3. QED
    BY <1>1, <1>2, <1>3, <2>2 DEF Edited, StepOf, UserTyped
<1>4. CASE step = 4
  <2>1. u = [user EXCEPT !.onboardingStep = 4, !.onboardingCompleted = TRUE,
                         !.profilePhoto = Given(@, photo)]
    BY <1>4 DEF Completed
  <2>2. /\ u.onboardingStep = 4 /\ u.onboardingCompleted = TRUE
        /\ u.profilePhoto = Given(user.profilePhoto, photo)
        /\ u.accountType = user.accountType /\ u.email = user.email
        /\ u.isEmailVerified = user.isEmailVerified /\ u.fcmTokens = user.fcmTokens
    BY <2>1 DEF UserTyped, Fields
  <2>3. u.profilePhoto = user.profilePhoto \/ MayShow(u.profilePhoto)
    BY <2>2, PhotosFacts DEF Given
  <2>4. u.profilePhoto \in Files \cup {External, Nothing}
    BY <2>3 DEF MayShow, UserTyped
  <2>5. QED
    BY <1>1, <1>2, <1>4, <2>2, <2>3, <2>4 DEF Edited, StepOf
<1>5. CASE step \in {1, 2}
  <2>1. u = [user EXCEPT !.onboardingStep = step]
    BY <1>5 DEF Completed
  <2>2. /\ u.onboardingStep = step /\ u.accountType = user.accountType
        /\ u.onboardingCompleted = user.onboardingCompleted
        /\ u.profilePhoto = user.profilePhoto /\ u.email = user.email
        /\ u.isEmailVerified = user.isEmailVerified /\ u.fcmTokens = user.fcmTokens
    BY <2>1 DEF UserTyped, Fields
  <2>3. QED
    BY <1>1, <1>2, <1>5, <2>2 DEF Edited, StepOf, UserTyped
<1>6. step = 3 \/ step = 4 \/ step \in {1, 2}
  OBVIOUS
<1>7. QED
  BY <1>3, <1>4, <1>5, <1>6, Zenon

LEMMA ProfileEdit ==
  ASSUME UserTyped(user), NEW type \in Types, NEW photo \in Photos,
         NEW u, u = [user EXCEPT !.accountType = Given(@, type),
                                 !.profilePhoto = Given(@, photo)]
  PROVE  /\ DOMAIN u = Fields /\ Edited(u)
         /\ u.onboardingStep = user.onboardingStep
         /\ u.onboardingCompleted = user.onboardingCompleted
         /\ u.email = user.email /\ u.isEmailVerified = user.isEmailVerified
         /\ u.profilePhoto = user.profilePhoto \/ MayShow(u.profilePhoto)
<1>1. PICK t : t = Given(user.accountType, type)
  OBVIOUS
<1>2. PICK p : p = Given(user.profilePhoto, photo)
  OBVIOUS
<1>3. t \in AccountTypes \cup {Nothing}
  BY <1>1, NothingAssumption DEF Given, Types, UserTyped
<1>4. p = user.profilePhoto \/ MayShow(p)
  BY <1>2, PhotosFacts DEF Given
<1>5. p \in Files \cup {External, Nothing}
  BY <1>4 DEF MayShow, UserTyped
<1>6. u = [user EXCEPT !.accountType = t, !.profilePhoto = p]
  BY <1>1, <1>2
<1>7. /\ DOMAIN u = Fields /\ u.accountType = t /\ u.profilePhoto = p
      /\ u.onboardingStep = user.onboardingStep
      /\ u.onboardingCompleted = user.onboardingCompleted
      /\ u.email = user.email /\ u.isEmailVerified = user.isEmailVerified
      /\ u.fcmTokens = user.fcmTokens
  BY <1>6 DEF UserTyped, Fields
<1>8. QED
  BY <1>3, <1>4, <1>5, <1>7 DEF Edited

LEMMA EmailEdit ==
  ASSUME UserTyped(user), NEW e
  PROVE  LET u == [user EXCEPT !.email = e, !.isEmailVerified = FALSE]
         IN /\ DOMAIN u = Fields /\ Edited(u)
            /\ u.onboardingStep = user.onboardingStep
            /\ u.onboardingCompleted = user.onboardingCompleted
            /\ u.isEmailVerified = FALSE
            /\ u.profilePhoto = user.profilePhoto
  BY DEF UserTyped, Fields, Edited

LEMMA PhotoEdit ==
  ASSUME UserTyped(user), NEW f \in Files
  PROVE  LET u == [user EXCEPT !.profilePhoto = f]
         IN /\ DOMAIN u = Fields /\ Edited(u)
            /\ u.profilePhoto = f
            /\ u.onboardingStep = user.onboardingStep
            /\ u.onboardingCompleted = user.onboardingCompleted
            /\ u.email = user.email
  BY DEF UserTyped, Fields, Edited

-----------------------------------------------------------------------------

(* The calls. *)

\* Only c is changed.
Others(c) == \A e \in CallIds \ {c} : calls'[e] = calls[e]

LEMMA UploadFacts ==
  ASSUME Typed, NEW c \in CallIds, NEW f \in Files, UploadAvatar(c, f)
  PROVE  /\ UNCHANGED <<user, forgotten, confirmed, misled, cut, cleared, outdated>>
         /\ files[f] = "unused" /\ files' = [files EXCEPT ![f] = "stored"]
         /\ DOMAIN calls' = CallIds /\ Others(c) /\ CallTyped(calls'[c])
         /\ calls[c].pc = "idle" /\ calls'[c].pc = "findPrevious"
         /\ calls'[c].file = f /\ calls'[c].previous = Nothing
<1>1. PICK d : d = [NoCall EXCEPT !.pc = "findPrevious", !.file = f]
  OBVIOUS
<1>2. /\ CallTyped(d)
      /\ d.pc = "findPrevious" /\ d.file = f /\ d.previous = Nothing
  BY <1>1 DEF CallTyped, NoCall, PCs
<1>3. calls' = [calls EXCEPT ![c] = d]
  BY <1>1 DEF UploadAvatar
<1>4. QED
  BY <1>2, <1>3, OneCall DEF UploadAvatar, At, Others, mailHistory, formHistory

LEMMA FindPreviousFacts ==
  ASSUME Typed, NEW c \in CallIds, FindPrevious(c)
  PROVE  /\ UNCHANGED <<user, files, forgotten, confirmed, misled, cut, cleared, outdated>>
         /\ DOMAIN calls' = CallIds /\ Others(c) /\ CallTyped(calls'[c])
         /\ calls[c].pc = "findPrevious"
         /\ calls'[c].pc = IF user.profilePhoto \in Files THEN "delete" ELSE "findUser"
         /\ calls'[c].file = calls[c].file /\ calls'[c].previous = user.profilePhoto
<1>1. PICK d : d = [calls[c] EXCEPT !.previous = user.profilePhoto,
                      !.pc = IF user.profilePhoto \in Files THEN "delete" ELSE "findUser"]
  OBVIOUS
<1>2. CallTyped(calls[c]) /\ UserTyped(user)
  BY DEF Typed
<1>3. /\ CallTyped(d)
      /\ d.pc = IF user.profilePhoto \in Files THEN "delete" ELSE "findUser"
      /\ d.file = calls[c].file /\ d.previous = user.profilePhoto
  BY <1>1, <1>2 DEF CallTyped, PCs, UserTyped
<1>4. calls' = [calls EXCEPT ![c] = d]
  BY <1>1 DEF FindPrevious
<1>5. QED
  BY <1>3, <1>4, OneCall DEF FindPrevious, At, Others, mailHistory, formHistory

LEMMA DeleteFacts ==
  ASSUME Typed, NEW c \in CallIds, DeleteFile(c)
  PROVE  /\ UNCHANGED <<user, forgotten, confirmed, misled, cut, cleared, outdated>>
         /\ files' \in {files, [files EXCEPT ![calls[c].previous] = "deleted"]}
         /\ DOMAIN calls' = CallIds /\ Others(c) /\ CallTyped(calls'[c])
         /\ calls[c].pc = "delete" /\ calls'[c].pc = "findUser"
         /\ calls'[c].file = calls[c].file /\ calls'[c].previous = calls[c].previous
<1>1. PICK d : d = [calls[c] EXCEPT !.pc = "findUser"]
  OBVIOUS
<1>2. CallTyped(calls[c])
  BY DEF Typed
<1>3. /\ CallTyped(d)
      /\ d.pc = "findUser" /\ d.file = calls[c].file /\ d.previous = calls[c].previous
  BY <1>1, <1>2 DEF CallTyped, PCs
<1>4. calls' = [calls EXCEPT ![c] = d]
  BY <1>1 DEF DeleteFile
<1>5. QED
  BY <1>3, <1>4, OneCall DEF DeleteFile, At, Others, mailHistory, formHistory

LEMMA FindUserFacts ==
  ASSUME Typed, NEW c \in CallIds, FindUser(c)
  PROVE  /\ UNCHANGED <<user, files, forgotten, confirmed, misled, cut, cleared, outdated>>
         /\ DOMAIN calls' = CallIds /\ Others(c) /\ CallTyped(calls'[c])
         /\ calls[c].pc = "findUser" /\ calls'[c].pc = "save"
         /\ calls'[c].writes = Changes([user EXCEPT !.profilePhoto = calls[c].file])
         /\ calls'[c].file = calls[c].file /\ calls'[c].previous = calls[c].previous
<1>1. PICK d : d = [calls[c] EXCEPT !.pc = "save",
                      !.writes = Changes([user EXCEPT !.profilePhoto = calls[c].file])]
  OBVIOUS
<1>2. CallTyped(calls[c])
  BY DEF Typed
<1>3. /\ CallTyped(d)
      /\ d.pc = "save" /\ d.file = calls[c].file /\ d.previous = calls[c].previous
      /\ d.writes = Changes([user EXCEPT !.profilePhoto = calls[c].file])
  BY <1>1, <1>2 DEF CallTyped, PCs
<1>4. calls' = [calls EXCEPT ![c] = d]
  BY <1>1 DEF FindUser
<1>5. QED
  BY <1>3, <1>4, OneCall DEF FindUser, At, Others, mailHistory, formHistory

LEMMA PushFacts ==
  ASSUME Typed, NEW c \in CallIds, SendPush(c)
  PROVE  /\ UNCHANGED <<user, files, forgotten, confirmed, misled, cut, cleared, outdated>>
         /\ DOMAIN calls' = CallIds /\ Others(c) /\ CallTyped(calls'[c])
         /\ calls[c].pc = "idle" /\ calls'[c].pc = "send"
         /\ calls'[c].file = Nothing /\ calls'[c].previous = Nothing
<1>1. PICK d : d = [NoCall EXCEPT !.pc = "send", !.tokens = user.fcmTokens]
  OBVIOUS
<1>2. CallTyped(d) /\ d.pc = "send" /\ d.file = Nothing /\ d.previous = Nothing
  BY <1>1 DEF CallTyped, NoCall, PCs
<1>3. calls' = [calls EXCEPT ![c] = d]
  BY <1>1 DEF SendPush
<1>4. QED
  BY <1>2, <1>3, OneCall DEF SendPush, At, Others, mailHistory, formHistory

LEMMA SentFacts ==
  ASSUME Typed, NEW c \in CallIds, NEW unreached, SendToMultiple(c, unreached)
  PROVE  /\ UNCHANGED <<user, files, forgotten, confirmed, misled, cut, cleared, outdated>>
         /\ DOMAIN calls' = CallIds /\ Others(c) /\ CallTyped(calls'[c])
         /\ calls[c].pc = "send"
         /\ \/ calls'[c] = NoCall
            \/ /\ calls'[c].pc = "clean"
               /\ calls'[c].file = calls[c].file /\ calls'[c].previous = calls[c].previous
               /\ calls'[c].tokens \subseteq forgotten \cup calls'[c].unreached
<1> DEFINE failed == FailedTokens(calls[c].tokens, unreached)
<1>1. CASE failed = {}
  <2>1. calls' = [calls EXCEPT ![c] = NoCall]
    BY <1>1 DEF SendToMultiple, End
  <2>2. QED
    BY <2>1, OneCall, NoCallFacts DEF SendToMultiple, At, Others, mailHistory, formHistory
<1>2. CASE failed # {}
  <2>1. PICK d : d = [calls[c] EXCEPT !.pc = "clean", !.tokens = failed, !.unreached = unreached]
    OBVIOUS
  <2>2. CallTyped(calls[c])
    BY DEF Typed
  <2>3. /\ CallTyped(d)
        /\ d.pc = "clean" /\ d.tokens = failed /\ d.unreached = unreached
        /\ d.file = calls[c].file /\ d.previous = calls[c].previous
    BY <2>1, <2>2 DEF CallTyped, PCs
  <2>4. calls' = [calls EXCEPT ![c] = d]
    BY <1>2, <2>1 DEF SendToMultiple
  <2>5. failed \subseteq forgotten \cup unreached
    BY DEF FailedTokens
  <2>6. QED
    BY <2>3, <2>4, <2>5, OneCall DEF SendToMultiple, At, Others, mailHistory, formHistory
<1>3. QED
  BY <1>1, <1>2

LEMMA EndFacts ==
  ASSUME Typed, NEW c \in CallIds, End(c)
  PROVE  DOMAIN calls' = CallIds /\ Others(c) /\ calls'[c] = NoCall
  BY OneCall DEF End, Others

\* A verification changes no more of the calls than their history.
LEMMA VerifiedFacts ==
  ASSUME Typed, SetVerificationFlag
  PROVE  /\ UNCHANGED <<files, forgotten, cut, cleared, outdated>>
         /\ user' = [user EXCEPT !.isEmailVerified = TRUE]
         /\ confirmed' = user.email /\ misled' = FALSE
         /\ DOMAIN calls' = CallIds
         /\ \A c \in CallIds :
              /\ CallTyped(calls'[c])
              /\ calls'[c].pc = calls[c].pc /\ calls'[c].writes = calls[c].writes
              /\ calls'[c].file = calls[c].file /\ calls'[c].previous = calls[c].previous
              /\ calls'[c].tokens = calls[c].tokens
              /\ calls'[c].unreached = calls[c].unreached
              /\ calls'[c].across = ("email" \in DOMAIN calls[c].writes)
<1>1. SUFFICES ASSUME NEW c \in CallIds
               PROVE  /\ CallTyped(calls'[c])
                      /\ calls'[c].pc = calls[c].pc /\ calls'[c].writes = calls[c].writes
                      /\ calls'[c].file = calls[c].file
                      /\ calls'[c].previous = calls[c].previous
                      /\ calls'[c].tokens = calls[c].tokens
                      /\ calls'[c].unreached = calls[c].unreached
                      /\ calls'[c].across = ("email" \in DOMAIN calls[c].writes)
  BY DEF SetVerificationFlag, formHistory
<1>2. PICK b : b = ("email" \in DOMAIN calls[c].writes)
  OBVIOUS
<1>3. b \in BOOLEAN
  BY <1>2
<1>4. calls'[c] = [calls[c] EXCEPT !.across = b]
  BY <1>2 DEF SetVerificationFlag
<1>5. CallTyped(calls[c])
  BY DEF Typed
<1>6. QED
  BY <1>2, <1>3, <1>4, <1>5 DEF CallTyped

-----------------------------------------------------------------------------

(* Steps that leave alone what saves read and write. *)

\* Most steps change no field of the user but the verification and the devices,
\* and bring no call to its save.
Quiet ==
  /\ \A f \in Fields \ {"isEmailVerified", "fcmTokens"} : user'[f] = user[f]
  /\ \A c \in CallIds : Saving(c)' => Saving(c) /\ calls'[c].writes = calls[c].writes
  /\ UNCHANGED <<cleared, outdated>>

\* All of these but a verification leave the verification alone, too.
Still ==
  /\ UNCHANGED <<confirmed, misled>>
  /\ user'.isEmailVerified = user.isEmailVerified
  /\ \A c \in CallIds : Saving(c)' => calls'[c].across = calls[c].across

\* What Typed needs of a step of one call.
LEMMA TypedCall ==
  ASSUME Typed, NEW c \in CallIds,
         UserTyped(user'), DOMAIN files' = Files,
         \A f \in Files : files'[f] \in {"unused", "stored", "deleted"},
         DOMAIN calls' = CallIds, Others(c), CallTyped(calls'[c]),
         Saving(c)' => WritesTyped(calls'[c].writes),
         misled' \in BOOLEAN, cleared' \in BOOLEAN, outdated' \in BOOLEAN
  PROVE  Typed'
<1>1. \A e \in CallIds : CallTyped(calls'[e])
  BY DEF Typed, Others
<1>2. \A e \in CallIds : Saving(e)' => WritesTyped(calls'[e].writes)
  BY DEF Typed, Others, Saving
<1>3. QED
  BY <1>1, <1>2 DEF Typed

\* A step of one call that does not lead to a save, with the user as it was.
LEMMA QuietCall ==
  ASSUME Typed, NEW c \in CallIds,
         UNCHANGED <<user, confirmed, misled, cleared, outdated>>, DOMAIN files' = Files,
         \A f \in Files : files'[f] \in {"unused", "stored", "deleted"},
         DOMAIN calls' = CallIds, Others(c), CallTyped(calls'[c]),
         calls'[c].pc # "save"
  PROVE  Quiet /\ Still /\ Typed'
<1>1. UserTyped(user') /\ misled' \in BOOLEAN /\ cleared' \in BOOLEAN /\ outdated' \in BOOLEAN
  BY DEF Typed
<1>2. Typed'
  BY <1>1, TypedCall DEF Saving
<1>3. QED
  BY <1>2 DEF Quiet, Still, Saving, Others

\* One that changes the documents at most.
LEMMA QuietUpdate ==
  ASSUME Typed, UserTyped(user'), UNCHANGED <<files, calls, confirmed, misled, cleared, outdated>>,
         \A f \in Fields \ {"fcmTokens"} : user'[f] = user[f]
  PROVE  Quiet /\ Still /\ Typed'
  BY DEF Typed, Quiet, Still, Saving, Fields

LEMMA QuietUpload ==
  ASSUME Typed, NEW c \in CallIds, NEW f \in Files, UploadAvatar(c, f)
  PROVE  Quiet /\ Still /\ Typed'
<1>1. /\ DOMAIN files' = Files
      /\ \A g \in Files : files'[g] \in {"unused", "stored", "deleted"}
  BY UploadFacts DEF Typed
<1>2. QED
  BY <1>1, UploadFacts, QuietCall

LEMMA QuietFindPrevious ==
  ASSUME Typed, NEW c \in CallIds, FindPrevious(c)
  PROVE  Quiet /\ Still /\ Typed'
<1>1. /\ DOMAIN files' = Files
      /\ \A g \in Files : files'[g] \in {"unused", "stored", "deleted"}
  BY FindPreviousFacts DEF Typed
<1>2. QED
  BY <1>1, FindPreviousFacts, QuietCall

LEMMA QuietDelete ==
  ASSUME Typed, NEW c \in CallIds, DeleteFile(c)
  PROVE  Quiet /\ Still /\ Typed'
<1>1. /\ DOMAIN files' = Files
      /\ \A g \in Files : files'[g] \in {"unused", "stored", "deleted"}
  BY DeleteFacts DEF Typed
<1>2. QED
  BY <1>1, DeleteFacts, QuietCall

LEMMA QuietPush ==
  ASSUME Typed, NEW c \in CallIds, SendPush(c)
  PROVE  Quiet /\ Still /\ Typed'
<1>1. /\ DOMAIN files' = Files
      /\ \A g \in Files : files'[g] \in {"unused", "stored", "deleted"}
  BY PushFacts DEF Typed
<1>2. QED
  BY <1>1, PushFacts, QuietCall

LEMMA QuietSent ==
  ASSUME Typed, NEW c \in CallIds, NEW unreached, SendToMultiple(c, unreached)
  PROVE  Quiet /\ Still /\ Typed'
<1>1. /\ DOMAIN files' = Files
      /\ \A g \in Files : files'[g] \in {"unused", "stored", "deleted"}
  BY SentFacts DEF Typed
<1>2. calls'[c].pc # "save"
  BY SentFacts, NoCallFacts
<1>3. QED
  BY <1>1, <1>2, SentFacts, QuietCall

LEMMA QuietFail ==
  ASSUME Typed, NEW c \in CallIds, Fail(c)
  PROVE  Quiet /\ Still /\ Typed'
<1>1. DOMAIN calls' = CallIds /\ Others(c) /\ calls'[c] = NoCall
  BY EndFacts DEF Fail
<1>2. /\ DOMAIN files' = Files
      /\ \A g \in Files : files'[g] \in {"unused", "stored", "deleted"}
  BY DEF Fail, Typed
<1>3. QED
  BY <1>1, <1>2, NoCallFacts, QuietCall DEF Fail, mailHistory, formHistory

\* The devices are no part of what is typed.
LEMMA Tokens ==
  ASSUME UserTyped(user), NEW tokens, user' = [user EXCEPT !.fcmTokens = tokens]
  PROVE  /\ UserTyped(user')
         /\ \A f \in Fields \ {"fcmTokens"} : user'[f] = user[f]
  BY DEF UserTyped, Fields

LEMMA QuietClean ==
  ASSUME Typed, NEW c \in CallIds, CleanInvalidFcmTokens(c)
  PROVE  Quiet /\ Still /\ Typed'
<1>1. DOMAIN calls' = CallIds /\ Others(c) /\ calls'[c] = NoCall
  BY EndFacts DEF CleanInvalidFcmTokens
<1>2. /\ UserTyped(user')
      /\ \A f \in Fields \ {"fcmTokens"} : user'[f] = user[f]
  BY Tokens DEF CleanInvalidFcmTokens, Typed
<1>3. UNCHANGED <<files, confirmed, misled, cleared, outdated>>
  BY DEF CleanInvalidFcmTokens, mailHistory, formHistory
<1>4. Typed'
  BY <1>1, <1>2, <1>3, NoCallFacts, TypedCall DEF Typed, Saving
<1>5. QED
  BY <1>1, <1>2, <1>3, <1>4, NoCallFacts DEF Quiet, Still, Saving, Others, Fields

LEMMA QuietDevice ==
  ASSUME Typed, NEW d, AddFcmToken(d) \/ RemoveFcmToken(d) \/ Forget(d)
  PROVE  Quiet /\ Still /\ Typed'
<1>1. CASE AddFcmToken(d) \/ RemoveFcmToken(d)
  <2>1. UserTyped(user) /\ UNCHANGED <<files, calls, confirmed, misled, cleared, outdated>>
    BY <1>1 DEF Typed, AddFcmToken, RemoveFcmToken, mailHistory, formHistory
  <2>2. PICK tokens : user' = [user EXCEPT !.fcmTokens = tokens]
    BY <1>1 DEF AddFcmToken, RemoveFcmToken
  <2>3. QED
    BY <2>1, <2>2, Tokens, QuietUpdate
<1>2. CASE Forget(d)
  BY <1>2, QuietUpdate DEF Forget, Typed, mailHistory, formHistory
<1>3. QED
  BY <1>1, <1>2

LEMMA QuietVerified ==
  ASSUME Typed, SetVerificationFlag
  PROVE  Quiet /\ Typed'
<1>1. UserTyped(user)
  BY DEF Typed
<1>2. user' = [user EXCEPT !.isEmailVerified = TRUE]
  BY DEF SetVerificationFlag
<1>3. /\ UserTyped(user')
      /\ \A f \in Fields \ {"isEmailVerified"} : user'[f] = user[f]
  BY <1>1, <1>2 DEF UserTyped, Fields
<1>4. /\ UNCHANGED <<files, cleared, outdated>>
      /\ misled' = FALSE /\ DOMAIN calls' = CallIds
      /\ \A c \in CallIds :
           /\ CallTyped(calls'[c])
           /\ calls'[c].pc = calls[c].pc /\ calls'[c].writes = calls[c].writes
  BY VerifiedFacts
<1>5. Typed'
  BY <1>3, <1>4 DEF Typed, Saving
<1>6. QED
  BY <1>3, <1>4, <1>5 DEF Quiet, Saving

-----------------------------------------------------------------------------

(* Calls that come to their save, and the save. *)

LEMMA TypedStart ==
  ASSUME Typed, NEW c \in CallIds, NEW edited, StartSave(c, edited), Edited(edited)
  PROVE  Typed' /\ Others(c)
<1>1. WritesTyped(calls'[c].writes)
  BY StartFacts, EditTyped DEF Typed
<1>2. Others(c)
  BY StartFacts DEF Others
<1>3. /\ UserTyped(user') /\ DOMAIN files' = Files
      /\ misled' \in BOOLEAN /\ cleared' \in BOOLEAN /\ outdated' \in BOOLEAN
      /\ \A f \in Files : files'[f] \in {"unused", "stored", "deleted"}
  BY StartFacts DEF Typed
<1>4. QED
  BY <1>1, <1>2, <1>3, StartFacts, TypedCall

LEMMA TypedFindUser ==
  ASSUME Typed, PhotoInv, NEW c \in CallIds, FindUser(c)
  PROVE  /\ Typed'
         /\ calls[c].file \in Files
         /\ WritesTyped(calls'[c].writes)
         /\ DOMAIN calls'[c].writes = {"profilePhoto"}
         /\ calls'[c].writes.profilePhoto = calls[c].file
<1>1. calls[c].file \in Files /\ user.profilePhoto # calls[c].file
  BY FindUserFacts DEF PhotoInv, Upload, Fresh
<1>2. PICK u : u = [user EXCEPT !.profilePhoto = calls[c].file]
  OBVIOUS
<1>3. UserTyped(user)
  BY DEF Typed
<1>4. u.profilePhoto = calls[c].file /\ \A f \in Fields \ {"profilePhoto"} : u[f] = user[f]
  BY <1>2, <1>3 DEF UserTyped, Fields
<1>5. Edited(u)
  BY <1>1, <1>2, <1>3, PhotoEdit
<1>6. calls'[c].writes = Changes(u)
  BY <1>2, FindUserFacts
<1>7. WritesTyped(calls'[c].writes)
  BY <1>3, <1>5, <1>6, EditTyped
<1>8. PICK w : w = Changes(u)
  OBVIOUS
<1>9. DOMAIN calls'[c].writes = {"profilePhoto"} /\ calls'[c].writes.profilePhoto = calls[c].file
  <2>1. /\ DOMAIN w = {f \in Fields : u[f] # user[f]}
        /\ \A f \in DOMAIN w : w[f] = u[f]
    BY <1>3, <1>8, ChangesFacts
  <2>2. "profilePhoto" \in DOMAIN w /\ w.profilePhoto = calls[c].file
    BY <1>1, <1>4, <2>1 DEF Fields
  <2>3. DOMAIN w = {"profilePhoto"}
    BY <1>4, <2>1, <2>2
  <2>4. QED
    BY <1>6, <1>8, <2>2, <2>3
<1>10. /\ UserTyped(user') /\ DOMAIN files' = Files
       /\ misled' \in BOOLEAN /\ cleared' \in BOOLEAN /\ outdated' \in BOOLEAN
       /\ \A f \in Files : files'[f] \in {"unused", "stored", "deleted"}
  BY FindUserFacts DEF Typed
<1>11. Typed'
  BY <1>7, <1>10, FindUserFacts, TypedCall
<1>12. QED
  BY <1>1, <1>7, <1>9, <1>11

LEMMA TypedSave ==
  ASSUME Typed, NEW c \in CallIds, Save(c)
  PROVE  Typed' /\ Others(c) /\ calls'[c] = NoCall /\ ~Saving(c)'
<1>1. DOMAIN calls' = CallIds /\ Others(c) /\ calls'[c] = NoCall
  BY EndFacts DEF Save
<1>2. PICK w : w = calls[c].writes
  OBVIOUS
<1>3. /\ WritesTyped(w) /\ DOMAIN user' = Fields
      /\ \A f \in Fields : user'[f] = IF f \in DOMAIN w THEN w[f] ELSE user[f]
      /\ misled' = IF "email" \in DOMAIN w THEN calls[c].across ELSE misled
      /\ UNCHANGED files
  BY <1>2, SaveFacts
<1>4. UserTyped(user) /\ CallTyped(calls[c]) /\ misled \in BOOLEAN
  BY DEF Typed
<1>5. UserTyped(user')
  <2>1. /\ user'.onboardingStep =
             IF "onboardingStep" \in DOMAIN w THEN w.onboardingStep ELSE user.onboardingStep
        /\ user'.onboardingCompleted =
             IF "onboardingCompleted" \in DOMAIN w THEN w.onboardingCompleted
             ELSE user.onboardingCompleted
        /\ user'.accountType =
             IF "accountType" \in DOMAIN w THEN w.accountType ELSE user.accountType
        /\ user'.profilePhoto =
             IF "profilePhoto" \in DOMAIN w THEN w.profilePhoto ELSE user.profilePhoto
        /\ user'.isEmailVerified =
             IF "isEmailVerified" \in DOMAIN w THEN w.isEmailVerified ELSE user.isEmailVerified
    BY <1>3 DEF Fields
  <2>2. user'.onboardingStep \in 0 .. 4 /\ user'.onboardingCompleted \in BOOLEAN
    <3>1. user'.onboardingStep \in 0 .. 4
      BY <1>3, <1>4, <2>1 DEF UserTyped, WritesTyped
    <3>2. "onboardingCompleted" \in DOMAIN w => w.onboardingCompleted = TRUE
      BY <1>3 DEF WritesTyped
    <3>3. user.onboardingCompleted \in BOOLEAN
      BY <1>4 DEF UserTyped
    <3>4. user'.onboardingCompleted \in BOOLEAN
      BY <2>1, <3>2, <3>3
    <3>5. QED
      BY <3>1, <3>4
  <2>3. user'.accountType \in AccountTypes \cup {Nothing}
    BY <1>3, <1>4, <2>1 DEF UserTyped, WritesTyped
  <2>4. user'.profilePhoto \in Files \cup {External, Nothing}
    BY <1>3, <1>4, <2>1 DEF UserTyped, WritesTyped
  <2>5. user'.isEmailVerified \in BOOLEAN
    <3>1. "isEmailVerified" \in DOMAIN w => w.isEmailVerified = FALSE
      BY <1>3 DEF WritesTyped
    <3>2. user.isEmailVerified \in BOOLEAN
      BY <1>4 DEF UserTyped
    <3>3. QED
      BY <2>1, <3>1, <3>2
  <2>6. QED
    BY <1>3, <2>2, <2>3, <2>4, <2>5 DEF UserTyped
<1>6. misled' \in BOOLEAN /\ cleared' \in BOOLEAN /\ outdated' \in BOOLEAN
  BY <1>3, <1>4, SaveHistory DEF CallTyped
<1>7. Typed'
  BY <1>1, <1>3, <1>5, <1>6, NoCallFacts, TypedCall DEF Typed, Saving
<1>8. QED
  BY <1>1, <1>7, NoCallFacts DEF Saving

-----------------------------------------------------------------------------

(* The wizard. *)

LEMMA WizardQuiet ==
  ASSUME WizardInv, Quiet
  PROVE  WizardInv'
<1>1. /\ user'.onboardingStep = user.onboardingStep
      /\ user'.onboardingCompleted = user.onboardingCompleted
      /\ user'.accountType = user.accountType /\ cleared' = cleared
  BY DEF Quiet, Fields
<1>2. WizardUser'
  BY <1>1 DEF WizardInv, WizardUser, TypeKept
<1>3. \A c \in CallIds : Saving(c)' => WizardWrites(calls[c].writes)'
  BY <1>1 DEF WizardInv, WizardWrites, TypeKept, Quiet
<1>4. QED
  BY <1>2, <1>3 DEF WizardInv

LEMMA WizardCall ==
  ASSUME WizardInv, NEW c \in CallIds, UNCHANGED <<user, cleared>>, Others(c),
         WizardWrites(calls'[c].writes)
  PROVE  WizardInv'
  BY DEF WizardInv, WizardUser, WizardWrites, TypeKept, Saving, Others

LEMMA WizardStep ==
  ASSUME Typed, WizardInv, NEW step \in 1 .. 4, NEW type \in Types,
         NEW photo \in Photos, CanComplete(step, type)
  PROVE  WizardWrites(Changes(Completed(step, type, photo)))
<1>1. PICK u : u = Completed(step, type, photo)
  OBVIOUS
<1>2. PICK w : w = Changes(u)
  OBVIOUS
<1>3. UserTyped(user)
  BY DEF Typed
<1>4. StepOf(u, step, type)
  BY <1>1, <1>3, StepEdit
<1>5. /\ DOMAIN w = {f \in Fields : u[f] # user[f]}
      /\ \A f \in DOMAIN w : w[f] = u[f]
  BY <1>2, <1>3, ChangesFacts
<1>6. "onboardingStep" \in DOMAIN w => w.onboardingStep = step
  BY <1>4, <1>5 DEF StepOf
<1>7. step = 4 => "onboardingCompleted" \in DOMAIN w /\ TypeKept
  <2>1. SUFFICES ASSUME step = 4
                 PROVE  "onboardingCompleted" \in DOMAIN w /\ TypeKept
    OBVIOUS
  <2>2. user.onboardingStep = 3
    BY <1>3, <1>4, <2>1 DEF UserTyped, StepOf
  <2>3. u.onboardingCompleted # user.onboardingCompleted
    BY <1>4, <2>1 DEF StepOf
  <2>4. QED
    BY <1>5, <2>2, <2>3 DEF Fields, WizardInv, WizardUser
<1>8. step # 4 => "onboardingCompleted" \notin DOMAIN w
  BY <1>4, <1>5 DEF StepOf
<1>9. step = 3 => "accountType" \in DOMAIN w \/ TypeKept
  BY <1>4, <1>5, NothingAssumption DEF Fields, StepOf, TypeKept
<1>10. WizardWrites(w)
  BY <1>6, <1>7, <1>8, <1>9 DEF WizardWrites
<1>11. QED
  BY <1>1, <1>2, <1>10

\* No other edit is one of the wizard's.
LEMMA WizardOther ==
  ASSUME UserTyped(user), NEW u, u.onboardingStep = user.onboardingStep,
         u.onboardingCompleted = user.onboardingCompleted
  PROVE  WizardWrites(Changes(u))
<1>1. PICK w : w = Changes(u)
  OBVIOUS
<1>2. DOMAIN w = {f \in Fields : u[f] # user[f]}
  BY <1>1, ChangesFacts
<1>3. "onboardingStep" \notin DOMAIN w /\ "onboardingCompleted" \notin DOMAIN w
  BY <1>2
<1>4. QED
  BY <1>1, <1>3 DEF WizardWrites

LEMMA WizardSave ==
  ASSUME Typed, WizardInv, NEW c \in CallIds, Save(c)
  PROVE  WizardInv'
<1>1. PICK w : w = calls[c].writes
  OBVIOUS
<1>2. /\ WritesTyped(w) /\ WizardWrites(w)
      /\ \A f \in Fields : user'[f] = IF f \in DOMAIN w THEN w[f] ELSE user[f]
  BY <1>1, SaveFacts DEF WizardInv
<1>3. /\ user'.onboardingStep =
           IF "onboardingStep" \in DOMAIN w THEN w.onboardingStep ELSE user.onboardingStep
      /\ user'.onboardingCompleted =
           IF "onboardingCompleted" \in DOMAIN w THEN w.onboardingCompleted
           ELSE user.onboardingCompleted
      /\ user'.accountType =
           IF "accountType" \in DOMAIN w THEN w.accountType ELSE user.accountType
  BY <1>2 DEF Fields
<1>4. "accountType" \in DOMAIN w => TypeKept'
  <2>1. SUFFICES ASSUME "accountType" \in DOMAIN w
                 PROVE  TypeKept'
    OBVIOUS
  <2>2. CASE w.accountType \in AccountTypes
    BY <1>3, <2>1, <2>2, NothingAssumption DEF TypeKept
  <2>3. CASE w.accountType = Nothing /\ "onboardingStep" \notin DOMAIN w
    BY <1>1, <2>1, <2>3, SaveHistory DEF TypeKept
  <2>4. QED
    BY <1>2, <2>1, <2>2, <2>3 DEF WritesTyped
<1>5. TypeKept => TypeKept'
  <2>1. CASE "accountType" \in DOMAIN w
    BY <1>4, <2>1
  <2>2. CASE "accountType" \notin DOMAIN w
    BY <1>1, <1>3, <2>2, SaveHistory DEF TypeKept
  <2>3. QED
    BY <2>1, <2>2
<1>6. WizardUser'
  BY <1>2, <1>3, <1>4, <1>5 DEF WizardInv, WizardUser, WizardWrites, WritesTyped
<1>7. \A e \in CallIds : Saving(e)' => WizardWrites(calls[e].writes)'
  <2>1. SUFFICES ASSUME NEW e \in CallIds, Saving(e)'
                 PROVE  WizardWrites(calls[e].writes)'
    OBVIOUS
  <2>2. Saving(e) /\ calls'[e].writes = calls[e].writes
    BY <2>1, TypedSave DEF Saving, Others
  <2>3. WizardWrites(calls[e].writes)
    BY <2>2 DEF WizardInv
  <2>4. QED
    BY <1>5, <2>2, <2>3 DEF WizardWrites
<1>8. QED
  BY <1>6, <1>7 DEF WizardInv

-----------------------------------------------------------------------------

(* The verified address. *)

LEMMA MailStill ==
  ASSUME MailInv, Quiet, Still
  PROVE  MailInv'
<1>1. user'.email = user.email
  BY DEF Quiet, Fields
<1>2. VerifiedIsCurrent'
  BY <1>1 DEF MailInv, VerifiedIsCurrent, Still
<1>3. QED
  BY <1>2 DEF MailInv, Quiet, Still

LEMMA MailVerified ==
  ASSUME Typed, MailInv, SetVerificationFlag
  PROVE  MailInv'
<1>1. UserTyped(user)
  BY DEF Typed
<1>2. user'.email = user.email
  BY <1>1, VerifiedFacts DEF UserTyped, Fields
<1>3. VerifiedIsCurrent'
  BY <1>2, VerifiedFacts DEF VerifiedIsCurrent
<1>4. \A c \in CallIds :
        calls'[c].writes = calls[c].writes
          /\ calls'[c].across = ("email" \in DOMAIN calls[c].writes)
  BY VerifiedFacts
<1>5. QED
  BY <1>3, <1>4 DEF MailInv, Saving

\* A call that comes to its save with the address as it was, or with the
\* verification taken off.
LEMMA MailCall ==
  ASSUME MailInv, NEW c \in CallIds, UNCHANGED <<user, confirmed, misled>>, Others(c),
         "email" \in DOMAIN calls'[c].writes
           => "isEmailVerified" \in DOMAIN calls'[c].writes \/ ~user.isEmailVerified
  PROVE  MailInv'
  BY DEF MailInv, VerifiedIsCurrent, Saving, Others

LEMMA MailOther ==
  ASSUME UserTyped(user), NEW u, u.email = user.email
  PROVE  "email" \notin DOMAIN Changes(u)
  BY ChangesFacts

LEMMA MailChange ==
  ASSUME UserTyped(user), NEW u, u.isEmailVerified = FALSE
  PROVE  "isEmailVerified" \in DOMAIN Changes(u) \/ ~user.isEmailVerified
<1>1. DOMAIN Changes(u) = {f \in Fields : u[f] # user[f]}
  BY ChangesFacts
<1>2. CASE user.isEmailVerified = FALSE
  BY <1>2
<1>3. CASE user.isEmailVerified # FALSE
  BY <1>1, <1>3 DEF Fields
<1>4. QED
  BY <1>2, <1>3

LEMMA MailSave ==
  ASSUME Typed, MailInv, NEW c \in CallIds, Save(c)
  PROVE  MailInv'
<1>1. PICK w : w = calls[c].writes
  OBVIOUS
<1>2. /\ WritesTyped(w)
      /\ \A f \in Fields : user'[f] = IF f \in DOMAIN w THEN w[f] ELSE user[f]
      /\ misled' = IF "email" \in DOMAIN w THEN calls[c].across ELSE misled
      /\ UNCHANGED confirmed /\ Saving(c)
  BY <1>1, SaveFacts
<1>3. /\ user'.email = IF "email" \in DOMAIN w THEN w.email ELSE user.email
      /\ user'.isEmailVerified =
           IF "isEmailVerified" \in DOMAIN w THEN w.isEmailVerified ELSE user.isEmailVerified
  BY <1>2 DEF Fields
<1>4. "isEmailVerified" \in DOMAIN w => w.isEmailVerified = FALSE
  BY <1>2 DEF WritesTyped
<1>5. ~user.isEmailVerified => ~user'.isEmailVerified
  <2>1. CASE "isEmailVerified" \in DOMAIN w
    BY <1>3, <1>4, <2>1
  <2>2. CASE "isEmailVerified" \notin DOMAIN w
    BY <1>3, <2>2
  <2>3. QED
    BY <2>1, <2>2
<1>6. "isEmailVerified" \in DOMAIN w => ~user'.isEmailVerified
  BY <1>3, <1>4
<1>7. VerifiedIsCurrent'
  <2>1. CASE "email" \in DOMAIN w /\ ~calls[c].across
    <3>1. "isEmailVerified" \in DOMAIN w \/ ~user.isEmailVerified
      BY <1>1, <1>2, <2>1 DEF MailInv
    <3>2. QED
      BY <1>5, <1>6, <3>1 DEF VerifiedIsCurrent
  <2>2. CASE "email" \in DOMAIN w /\ calls[c].across
    BY <1>2, <2>2 DEF VerifiedIsCurrent
  <2>3. CASE "email" \notin DOMAIN w
    BY <1>2, <1>3, <1>5, <2>3 DEF MailInv, VerifiedIsCurrent
  <2>4. QED
    BY <2>1, <2>2, <2>3
<1>8. \A e \in CallIds :
        Saving(e)' /\ "email" \in DOMAIN calls'[e].writes /\ ~calls'[e].across
          => "isEmailVerified" \in DOMAIN calls'[e].writes \/ ~user'.isEmailVerified
  <2>1. SUFFICES ASSUME NEW e \in CallIds, Saving(e)',
                        "email" \in DOMAIN calls'[e].writes, ~calls'[e].across
                 PROVE  "isEmailVerified" \in DOMAIN calls'[e].writes
                          \/ ~user'.isEmailVerified
    OBVIOUS
  <2>2. Saving(e) /\ calls'[e] = calls[e]
    BY <2>1, TypedSave DEF Saving, Others
  <2>3. "isEmailVerified" \in DOMAIN calls[e].writes \/ ~user.isEmailVerified
    BY <2>1, <2>2 DEF MailInv
  <2>4. QED
    BY <1>5, <2>2, <2>3
<1>9. QED
  BY <1>7, <1>8 DEF MailInv

-----------------------------------------------------------------------------

(* The avatar. *)

\* A step that changes no avatar and no call that has one.
LEMMA PhotoQuiet ==
  ASSUME PhotoInv, UNCHANGED <<files, cut, outdated>>,
         user'.profilePhoto = user.profilePhoto,
         \A c \in CallIds :
           /\ calls'[c].pc = calls[c].pc /\ calls'[c].writes = calls[c].writes
           /\ calls'[c].file = calls[c].file /\ calls'[c].previous = calls[c].previous
  PROVE  PhotoInv'
<1>1. \A c \in CallIds : Fresh(c)'
  BY DEF PhotoInv, Fresh, Unknown, Saving
<1>2. \A c \in CallIds : Upload(c)'
  BY DEF PhotoInv, Upload
<1>3. PhotoIsStored'
  BY DEF PhotoInv, PhotoIsStored, Replacing
<1>4. QED
  BY <1>1, <1>2, <1>3 DEF PhotoInv

\* A call that ends, or that starts without an avatar of its own, keeps nothing from it.
LEMMA PhotoNone ==
  ASSUME Typed, PhotoInv, NEW c \in CallIds, Others(c),
         UNCHANGED <<user, files, outdated>>, cut \subseteq cut',
         calls'[c].file = Nothing, calls'[c].previous = Nothing,
         calls'[c].pc \in {"idle", "send", "clean", "save"},
         calls'[c].pc = "save" /\ "profilePhoto" \in DOMAIN calls'[c].writes
           => MayShow(calls'[c].writes.profilePhoto),
         \A f \in Replacing(c) : files[f] = "stored" \/ f \in cut'
  PROVE  PhotoInv'
<1>1. \A e \in CallIds : Fresh(e)'
  <2>1. SUFFICES ASSUME NEW e \in CallIds, calls'[e].file \in Files
                 PROVE  Fresh(e)'
    BY DEF Fresh
  <2>2. e # c /\ calls'[e] = calls[e]
    BY <2>1, NothingAssumption DEF Others
  <2>3. PICK f \in Files : f = calls[e].file
    BY <2>1, <2>2
  <2>4. /\ files[f] = "stored" /\ user.profilePhoto # f
        /\ \A g \in CallIds : calls[g].previous # f /\ (g # e => Unknown(f, g))
    BY <2>3 DEF PhotoInv, Fresh
  <2>5. calls'[c].previous # f /\ Unknown(f, c)'
    BY <2>2, <2>3, NothingAssumption DEF Unknown, Saving, MayShow
  <2>6. \A g \in CallIds \ {c} : calls'[g].previous # f /\ (g # e => Unknown(f, g)')
    BY <2>4 DEF Unknown, Saving, Others
  <2>7. QED
    BY <2>2, <2>3, <2>4, <2>5, <2>6 DEF Fresh
<1>2. \A e \in CallIds : Upload(e)'
  <2>1. Upload(c)'
    BY NothingAssumption DEF Upload, MayShow
  <2>2. \A e \in CallIds \ {c} : Upload(e)'
    BY DEF PhotoInv, Upload, Others
  <2>3. QED
    BY <2>1, <2>2
<1>3. PhotoIsStored'
  <2>1. SUFFICES ASSUME user.profilePhoto \in Files, files[user.profilePhoto] # "stored",
                        user.profilePhoto \notin cut', ~outdated
                 PROVE  \E e \in CallIds : user.profilePhoto \in Replacing(e)'
    BY DEF PhotoIsStored
  <2>2. PICK e \in CallIds : user.profilePhoto \in Replacing(e)
    BY <2>1 DEF PhotoInv, PhotoIsStored
  <2>3. e # c
    BY <2>1, <2>2
  <2>4. Replacing(e)' = Replacing(e)
    BY <2>3 DEF Replacing, Others
  <2>5. QED
    BY <2>2, <2>4
<1>4. QED
  BY <1>1, <1>2, <1>3 DEF PhotoInv

LEMMA PhotoStart ==
  ASSUME Typed, PhotoInv, NEW c \in CallIds, NEW u, StartSave(c, u), Edited(u),
         u.profilePhoto = user.profilePhoto \/ MayShow(u.profilePhoto)
  PROVE  PhotoInv'
<1>1. UserTyped(user)
  BY DEF Typed
<1>2. PICK w : w = Changes(u)
  OBVIOUS
<1>3. "profilePhoto" \in DOMAIN w => MayShow(w.profilePhoto)
  BY <1>1, <1>2, ChangesFacts
<1>4. Replacing(c) = {}
  BY StartFacts DEF Replacing
<1>5. Others(c)
  BY StartFacts DEF Others
<1>6. QED
  BY <1>2, <1>3, <1>4, <1>5, StartFacts, PhotoNone

LEMMA PhotoPush ==
  ASSUME Typed, PhotoInv, NEW c \in CallIds, SendPush(c)
  PROVE  PhotoInv'
<1>1. Replacing(c) = {}
  BY PushFacts DEF Replacing
<1>2. QED
  BY <1>1, PushFacts, PhotoNone

LEMMA PhotoSent ==
  ASSUME Typed, PhotoInv, NEW c \in CallIds, NEW unreached, SendToMultiple(c, unreached)
  PROVE  PhotoInv'
<1>1. Replacing(c) = {}
  BY SentFacts DEF Replacing
<1>2. calls[c].file = Nothing /\ calls[c].previous = Nothing
  BY SentFacts DEF PhotoInv, Upload
<1>3. /\ calls'[c].file = Nothing /\ calls'[c].previous = Nothing
      /\ calls'[c].pc \in {"idle", "clean"}
  BY <1>2, SentFacts, NoCallFacts
<1>4. QED
  BY <1>1, <1>3, SentFacts, PhotoNone

LEMMA PhotoFail ==
  ASSUME Typed, PhotoInv, NEW c \in CallIds, Fail(c)
  PROVE  PhotoInv'
<1>1. Others(c) /\ calls'[c] = NoCall
  BY EndFacts DEF Fail
<1>2. /\ UNCHANGED <<user, files, outdated>>
      /\ cut' = cut \cup {f \in Replacing(c) : files[f] = "deleted"}
  BY DEF Fail, formHistory
<1>3. \A f \in Replacing(c) : f \in Files /\ files[f] # "unused"
  BY DEF PhotoInv, Upload, Replacing
<1>4. \A f \in Replacing(c) : files[f] = "stored" \/ f \in cut'
  BY <1>2, <1>3 DEF Typed
<1>5. QED
  BY <1>1, <1>2, <1>4, NoCallFacts, PhotoNone

LEMMA PhotoClean ==
  ASSUME Typed, PhotoInv, NEW c \in CallIds, CleanInvalidFcmTokens(c)
  PROVE  PhotoInv'
<1>1. Others(c) /\ calls'[c] = NoCall /\ calls[c].pc = "clean"
  BY EndFacts DEF CleanInvalidFcmTokens, At
<1>2. UserTyped(user) /\ UNCHANGED <<files, cut, outdated>>
  BY DEF Typed, CleanInvalidFcmTokens, formHistory
<1>3. user'.profilePhoto = user.profilePhoto
  BY <1>2, Tokens DEF CleanInvalidFcmTokens, Fields
<1>4. calls[c].file = Nothing /\ calls[c].previous = Nothing
  BY <1>1 DEF PhotoInv, Upload
<1>5. \A e \in CallIds : Fresh(e)'
  <2>1. \A e \in CallIds : calls'[e].file = calls[e].file /\ calls'[e].previous = calls[e].previous
    BY <1>1, <1>4, NoCallFacts DEF Others
  <2>2. \A e \in CallIds : \A f : Unknown(f, e) => Unknown(f, e)'
    BY <1>1, <2>1, NoCallFacts DEF Unknown, Saving, Others
  <2>3. QED
    BY <1>2, <1>3, <2>1, <2>2 DEF PhotoInv, Fresh
<1>6. \A e \in CallIds : Upload(e)'
  <2>1. Upload(c)'
    BY <1>1, NoCallFacts, NothingAssumption DEF Upload
  <2>2. QED
    BY <1>1, <1>2, <2>1 DEF PhotoInv, Upload, Others
<1>7. PhotoIsStored'
  <2>1. \A e \in CallIds : Replacing(e)' = Replacing(e)
    BY <1>1, NoCallFacts DEF Replacing, Others
  <2>2. QED
    BY <1>2, <1>3, <2>1 DEF PhotoInv, PhotoIsStored
<1>8. QED
  BY <1>2, <1>3, <1>5, <1>6, <1>7 DEF PhotoInv

LEMMA PhotoDevice ==
  ASSUME Typed, PhotoInv, NEW d, AddFcmToken(d) \/ RemoveFcmToken(d) \/ Forget(d)
  PROVE  PhotoInv'
<1>1. user'.profilePhoto = user.profilePhoto
  BY QuietDevice DEF Quiet, Fields
<1>2. UNCHANGED <<files, calls, cut, outdated>>
  BY DEF AddFcmToken, RemoveFcmToken, Forget, formHistory
<1>3. QED
  BY <1>1, <1>2, PhotoQuiet

LEMMA PhotoVerified ==
  ASSUME Typed, PhotoInv, SetVerificationFlag
  PROVE  PhotoInv'
<1>1. user'.profilePhoto = user.profilePhoto
  BY QuietVerified DEF Quiet, Fields
<1>2. QED
  BY <1>1, VerifiedFacts, PhotoQuiet

\* The new avatar has a name that nobody uses.
LEMMA PhotoUpload ==
  ASSUME Typed, PhotoInv, NEW c \in CallIds, NEW f \in Files, UploadAvatar(c, f)
  PROVE  PhotoInv'
<1>1. /\ UNCHANGED <<user, cut, outdated>>
      /\ files[f] = "unused" /\ files' = [files EXCEPT ![f] = "stored"]
      /\ Others(c) /\ calls[c].pc = "idle" /\ calls'[c].pc = "findPrevious"
      /\ calls'[c].file = f /\ calls'[c].previous = Nothing
  BY UploadFacts
<1>2. files'[f] = "stored" /\ \A g \in Files \ {f} : files'[g] = files[g]
  BY <1>1 DEF Typed
<1>3. \A e \in CallIds : calls[e].previous # f /\ calls[e].file # f
  BY <1>1 DEF PhotoInv, Upload, Fresh
<1>4. \A e \in CallIds : Unknown(f, e)
  BY <1>1, <1>3 DEF PhotoInv, Upload, Unknown, Saving, Typed, CallTyped
<1>5. user.profilePhoto # f
  BY <1>1 DEF PhotoInv
<1>6. Fresh(c)'
  <2>1. \A e \in CallIds : calls'[e].previous # f /\ (e # c => Unknown(f, e)')
    BY <1>1, <1>3, <1>4, NothingAssumption DEF Unknown, Saving, Others
  <2>2. QED
    BY <1>1, <1>2, <1>5, <2>1 DEF Fresh
<1>7. \A e \in CallIds \ {c} : Fresh(e)'
  <2>1. SUFFICES ASSUME NEW e \in CallIds \ {c}, calls[e].file \in Files
                 PROVE  Fresh(e)'
    BY <1>1 DEF Fresh, Others
  <2>2. PICK h \in Files : h = calls[e].file
    BY <2>1
  <2>3. /\ files[h] = "stored" /\ user.profilePhoto # h
        /\ \A g \in CallIds : calls[g].previous # h /\ (g # e => Unknown(h, g))
    BY <2>2 DEF PhotoInv, Fresh
  <2>4. h # f /\ files'[h] = "stored"
    BY <1>2, <1>3, <2>2, <2>3
  <2>5. calls'[c].previous # h /\ Unknown(h, c)'
    BY <1>1, <2>4, NothingAssumption DEF Unknown, Saving
  <2>6. \A g \in CallIds \ {c} : calls'[g].previous # h /\ (g # e => Unknown(h, g)')
    BY <1>1, <2>3 DEF Unknown, Saving, Others
  <2>7. QED
    BY <1>1, <2>2, <2>3, <2>4, <2>5, <2>6 DEF Fresh, Others
<1>8. Upload(c)'
  BY <1>1, NothingAssumption DEF Upload
<1>9. \A e \in CallIds \ {c} : Upload(e)'
  <2>1. \A g \in Files : files[g] # "unused" => files'[g] # "unused"
    BY <1>2
  <2>2. QED
    BY <1>1, <2>1 DEF PhotoInv, Upload, Others
<1>10. PhotoIsStored'
  <2>1. \A e \in CallIds : Replacing(e) \subseteq Replacing(e)'
    BY <1>1 DEF Replacing, Others
  <2>2. QED
    BY <1>1, <1>2, <1>5, <2>1 DEF PhotoInv, PhotoIsStored
<1>11. user'.profilePhoto \in Files => files'[user'.profilePhoto] # "unused"
  BY <1>1, <1>2, <1>5 DEF PhotoInv
<1>12. QED
  BY <1>6, <1>7, <1>8, <1>9, <1>10, <1>11 DEF PhotoInv

\* An avatar that other calls do not know stays unknown when an upload goes on.
LEMMA UnknownStays ==
  ASSUME NEW c \in CallIds, Others(c), calls'[c].file = calls[c].file,
         Saving(c)' /\ "profilePhoto" \in DOMAIN calls'[c].writes
           => calls'[c].writes.profilePhoto = calls[c].file,
         NEW f, NEW e \in CallIds, Unknown(f, e)
  PROVE  Unknown(f, e)'
  BY DEF Unknown, Saving, Others

LEMMA PhotoFindPrevious ==
  ASSUME Typed, PhotoInv, NEW c \in CallIds, FindPrevious(c)
  PROVE  PhotoInv'
<1>1. /\ UNCHANGED <<user, files, cut, outdated>>
      /\ Others(c) /\ calls[c].pc = "findPrevious"
      /\ calls'[c].pc = IF user.profilePhoto \in Files THEN "delete" ELSE "findUser"
      /\ calls'[c].file = calls[c].file /\ calls'[c].previous = user.profilePhoto
  BY FindPreviousFacts
<1>2. \A e \in CallIds : calls'[e].file = calls[e].file
  BY <1>1 DEF Others
<1>3. \A e \in CallIds : Fresh(e)'
  <2>1. \A e \in CallIds : \A f : Unknown(f, e) => Unknown(f, e)'
    BY <1>1, UnknownStays DEF Saving
  <2>2. QED
    BY <1>1, <1>2, <2>1 DEF PhotoInv, Fresh, Others
<1>4. Upload(c)'
  BY <1>1 DEF PhotoInv, Upload
<1>5. \A e \in CallIds \ {c} : Upload(e)'
  BY <1>1 DEF PhotoInv, Upload, Others
<1>6. PhotoIsStored'
  <2>1. \A e \in CallIds : Replacing(e) \subseteq Replacing(e)'
    BY <1>1 DEF Replacing, Others
  <2>2. QED
    BY <1>1, <2>1 DEF PhotoInv, PhotoIsStored
<1>7. QED
  BY <1>1, <1>3, <1>4, <1>5, <1>6 DEF PhotoInv

\* What is deleted is what the upload found: its own new avatar is not on the user.
LEMMA PhotoDelete ==
  ASSUME Typed, PhotoInv, NEW c \in CallIds, DeleteFile(c)
  PROVE  PhotoInv'
<1>1. /\ UNCHANGED <<user, cut, outdated>>
      /\ files' \in {files, [files EXCEPT ![calls[c].previous] = "deleted"]}
      /\ Others(c) /\ calls[c].pc = "delete" /\ calls'[c].pc = "findUser"
      /\ calls'[c].file = calls[c].file /\ calls'[c].previous = calls[c].previous
  BY DeleteFacts
<1>2. PICK f : f = calls[c].previous
  OBVIOUS
<1>3. f \in Files
  BY <1>1, <1>2 DEF PhotoInv, Upload
<1>4. /\ \A g \in Files \ {f} : files'[g] = files[g]
      /\ files'[f] \in {files[f], "deleted"}
  BY <1>1, <1>2, <1>3 DEF Typed
<1>5. \A e \in CallIds :
        calls'[e].file = calls[e].file /\ calls'[e].previous = calls[e].previous
  BY <1>1 DEF Others
<1>6. \A e \in CallIds : calls[e].file # f
  BY <1>2, <1>3 DEF PhotoInv, Fresh
<1>7. \A e \in CallIds : Fresh(e)'
  <2>1. \A e \in CallIds : \A g : Unknown(g, e) => Unknown(g, e)'
    BY <1>1, UnknownStays DEF Saving
  <2>2. QED
    BY <1>1, <1>4, <1>5, <1>6, <2>1 DEF PhotoInv, Fresh
<1>8. \A g \in Files : files[g] # "unused" => files'[g] # "unused"
  BY <1>4
<1>9. Upload(c)'
  BY <1>1, <1>8 DEF PhotoInv, Upload
<1>10. \A e \in CallIds \ {c} : Upload(e)'
  BY <1>1, <1>8 DEF PhotoInv, Upload, Others
<1>11. PhotoIsStored'
  <2>1. \A e \in CallIds : Replacing(e) \subseteq Replacing(e)'
    BY <1>1 DEF Replacing, Others
  <2>2. f \in Replacing(c)'
    BY <1>1, <1>2, <1>3 DEF Replacing
  <2>3. QED
    BY <1>1, <1>4, <2>1, <2>2 DEF PhotoInv, PhotoIsStored
<1>12. QED
  BY <1>1, <1>7, <1>8, <1>9, <1>10, <1>11 DEF PhotoInv

LEMMA PhotoFindUser ==
  ASSUME Typed, PhotoInv, NEW c \in CallIds, FindUser(c)
  PROVE  PhotoInv'
<1>1. /\ UNCHANGED <<user, files, cut, outdated>>
      /\ Others(c) /\ calls[c].pc = "findUser" /\ calls'[c].pc = "save"
      /\ calls'[c].file = calls[c].file /\ calls'[c].previous = calls[c].previous
  BY FindUserFacts
<1>2. /\ calls[c].file \in Files
      /\ "profilePhoto" \in DOMAIN calls'[c].writes
      /\ calls'[c].writes.profilePhoto = calls[c].file
  BY TypedFindUser
<1>3. \A e \in CallIds :
        calls'[e].file = calls[e].file /\ calls'[e].previous = calls[e].previous
  BY <1>1 DEF Others
<1>4. \A e \in CallIds : Fresh(e)'
  <2>1. \A e \in CallIds : \A f : Unknown(f, e) => Unknown(f, e)'
    BY <1>1, <1>2, UnknownStays
  <2>2. QED
    BY <1>1, <1>3, <2>1 DEF PhotoInv, Fresh
<1>5. Upload(c)'
  BY <1>1, <1>2 DEF PhotoInv, Upload
<1>6. \A e \in CallIds \ {c} : Upload(e)'
  BY <1>1 DEF PhotoInv, Upload, Others
<1>7. PhotoIsStored'
  <2>1. \A e \in CallIds : Replacing(e) \subseteq Replacing(e)'
    BY <1>1 DEF Replacing, Others
  <2>2. QED
    BY <1>1, <2>1 DEF PhotoInv, PhotoIsStored
<1>8. QED
  BY <1>1, <1>4, <1>5, <1>6, <1>7 DEF PhotoInv

\* The photo that a call saves is its own new avatar, or one that the form gave.
LEMMA PhotoSave ==
  ASSUME Typed, PhotoInv, NEW c \in CallIds, Save(c)
  PROVE  PhotoInv'
<1>1. PICK w : w = calls[c].writes
  OBVIOUS
<1>2. /\ Saving(c) /\ WritesTyped(w)
      /\ \A f \in Fields : user'[f] = IF f \in DOMAIN w THEN w[f] ELSE user[f]
      /\ UNCHANGED <<files, cut>>
  BY <1>1, SaveFacts
<1>3. Others(c) /\ calls'[c] = NoCall
  BY TypedSave
<1>4. user'.profilePhoto =
        IF "profilePhoto" \in DOMAIN w THEN w.profilePhoto ELSE user.profilePhoto
  BY <1>2 DEF Fields
<1>5. \/ calls[c].file \in Files /\ user'.profilePhoto = calls[c].file
      \/ calls[c].file = Nothing /\ calls[c].previous = Nothing
  BY <1>1, <1>2, <1>4, NothingAssumption DEF PhotoInv, Upload, Saving, Typed, CallTyped
<1>6. calls[c].file = Nothing /\ "profilePhoto" \in DOMAIN w /\ w.profilePhoto \in Files
        => files[w.profilePhoto] # "unused"
  BY <1>1, <1>2, NothingAssumption DEF PhotoInv, Upload, Saving
<1>7. user'.profilePhoto \in Files => files[user'.profilePhoto] # "unused"
  BY <1>4, <1>5, <1>6 DEF PhotoInv, Fresh
<1>8. \A e \in CallIds : Fresh(e)'
  <2>1. SUFFICES ASSUME NEW e \in CallIds, calls'[e].file \in Files
                 PROVE  Fresh(e)'
    BY DEF Fresh
  <2>2. e # c /\ calls'[e] = calls[e]
    BY <1>3, <2>1, NoCallFacts, NothingAssumption DEF Others
  <2>3. PICK f \in Files : f = calls[e].file
    BY <2>1, <2>2
  <2>4. /\ files[f] = "stored" /\ user.profilePhoto # f
        /\ \A g \in CallIds : calls[g].previous # f /\ (g # e => Unknown(f, g))
    BY <2>3 DEF PhotoInv, Fresh
  <2>5. user'.profilePhoto # f
    BY <1>1, <1>2, <1>4, <2>2, <2>4 DEF Unknown
  <2>6. calls'[c].previous # f /\ Unknown(f, c)'
    BY <1>3, NoCallFacts, NothingAssumption DEF Unknown, Saving
  <2>7. \A g \in CallIds \ {c} : calls'[g].previous # f /\ (g # e => Unknown(f, g)')
    BY <1>3, <2>4 DEF Unknown, Saving, Others
  <2>8. QED
    BY <1>2, <2>2, <2>3, <2>4, <2>5, <2>6, <2>7 DEF Fresh
<1>9. \A e \in CallIds : Upload(e)'
  <2>1. Upload(c)'
    BY <1>3, NoCallFacts, NothingAssumption DEF Upload
  <2>2. QED
    BY <1>2, <1>3, <2>1 DEF PhotoInv, Upload, Others
<1>10. PhotoIsStored'
  <2>1. CASE calls[c].file \in Files /\ user'.profilePhoto = calls[c].file
    BY <1>2, <2>1 DEF PhotoInv, Fresh, PhotoIsStored
  <2>2. CASE calls[c].file = Nothing /\ "profilePhoto" \in DOMAIN w
    <3>1. SUFFICES ASSUME user'.profilePhoto \in Files,
                          files[user'.profilePhoto] # "stored"
                   PROVE  outdated'
      BY <1>2 DEF PhotoIsStored
    <3>2. files[w.profilePhoto] = "deleted" /\ w.profilePhoto \in Files
      BY <1>4, <1>6, <2>2, <3>1 DEF Typed
    <3>3. QED
      BY <1>1, <2>2, <3>2, SaveHistory
  <2>3. CASE /\ calls[c].file = Nothing /\ calls[c].previous = Nothing
             /\ "profilePhoto" \notin DOMAIN w
    <3>1. Replacing(c) = {}
      BY <2>3, NothingAssumption DEF Replacing
    <3>2. \A e \in CallIds : Replacing(e) \subseteq Replacing(e)'
      BY <1>3, <3>1 DEF Replacing, Others
    <3>3. user'.profilePhoto = user.profilePhoto /\ outdated' = outdated
      BY <1>1, <1>4, <2>3, SaveHistory
    <3>4. QED
      BY <1>2, <3>2, <3>3 DEF PhotoInv, PhotoIsStored
  <2>4. QED
    BY <1>5, <2>1, <2>2, <2>3
<1>11. QED
  BY <1>2, <1>7, <1>8, <1>9, <1>10 DEF PhotoInv

-----------------------------------------------------------------------------

(* The invariant. *)

THEOREM ProfileStart == Init => ProfileInv
<1>1. SUFFICES ASSUME Init
               PROVE  ProfileInv
  OBVIOUS
<1>2. PICK e \in Emails :
        \/ /\ \E type \in AccountTypes \cup {Nothing} :
                user = [NewUser(e) EXCEPT !.accountType = type]
           /\ confirmed = Nothing
        \/ /\ \E photo \in {External, Nothing} :
                user = [NewUser(e) EXCEPT !.profilePhoto = photo, !.isEmailVerified = TRUE]
           /\ confirmed = e
  BY <1>1 DEF Init
<1>3. /\ UserTyped(user)
      /\ user.onboardingStep = 0 /\ user.onboardingCompleted = FALSE
      /\ user.profilePhoto \in {External, Nothing}
      /\ VerifiedIsCurrent
  <2>1. CASE \E type \in AccountTypes \cup {Nothing} :
               user = [NewUser(e) EXCEPT !.accountType = type]
    <3>1. PICK type \in AccountTypes \cup {Nothing} :
            user = [NewUser(e) EXCEPT !.accountType = type]
      BY <2>1
    <3>2. QED
      BY <3>1 DEF NewUser, UserTyped, Fields, VerifiedIsCurrent
  <2>2. CASE \E photo \in {External, Nothing} :
               /\ user = [NewUser(e) EXCEPT !.profilePhoto = photo, !.isEmailVerified = TRUE]
               /\ confirmed = e
    <3>1. PICK photo \in {External, Nothing} :
            /\ user = [NewUser(e) EXCEPT !.profilePhoto = photo, !.isEmailVerified = TRUE]
            /\ confirmed = e
      BY <2>2
    <3>2. QED
      BY <3>1 DEF NewUser, UserTyped, Fields, VerifiedIsCurrent
  <2>3. QED
    BY <1>2, <2>1, <2>2
<1>4. \A c \in CallIds : calls[c] = NoCall /\ ~Saving(c)
  BY <1>1, NoCallFacts DEF Init, Saving
<1>5. Typed
  BY <1>1, <1>3, <1>4, NoCallFacts DEF Init, Typed
<1>6. WizardInv
  BY <1>3, <1>4 DEF WizardInv, WizardUser
<1>7. MailInv
  BY <1>3, <1>4 DEF MailInv
<1>8. PhotoInv
  <2>1. \A c \in CallIds : Fresh(c) /\ Upload(c)
    BY <1>4, NoCallFacts, NothingAssumption DEF Fresh, Upload
  <2>2. user.profilePhoto \notin Files
    BY <1>3, NothingAssumption
  <2>3. QED
    BY <2>1, <2>2 DEF PhotoInv, PhotoIsStored
<1>9. PushInv
  BY <1>4, NoCallFacts DEF PushInv
<1>10. QED
  BY <1>5, <1>6, <1>7, <1>8, <1>9 DEF ProfileInv

\* One step of the wizard, the profile form or changeEmail up to its save.
LEMMA StartPreserves ==
  ASSUME ProfileInv, NEW c \in CallIds, NEW u, StartSave(c, u), Edited(u),
         u.profilePhoto = user.profilePhoto \/ MayShow(u.profilePhoto),
         WizardWrites(Changes(u)),
         "email" \in DOMAIN Changes(u)
           => "isEmailVerified" \in DOMAIN Changes(u) \/ ~user.isEmailVerified
  PROVE  ProfileInv'
<1>1. Typed /\ WizardInv /\ MailInv /\ PhotoInv /\ PushInv
  BY DEF ProfileInv
<1>2. Typed' /\ Others(c)
  BY <1>1, TypedStart
<1>3. calls'[c].writes = Changes(u) /\ calls'[c].pc = "save"
      /\ UNCHANGED <<user, confirmed, misled, cleared, forgotten>>
  BY <1>1, StartFacts
<1>4. WizardInv'
  BY <1>1, <1>2, <1>3, WizardCall
<1>5. MailInv'
  BY <1>1, <1>2, <1>3, MailCall
<1>6. PhotoInv'
  BY <1>1, PhotoStart
<1>7. PushInv'
  BY <1>1, <1>2, <1>3 DEF PushInv, Others
<1>8. QED
  BY <1>2, <1>4, <1>5, <1>6, <1>7 DEF ProfileInv

LEMMA CompleteStepPreserves ==
  ASSUME ProfileInv, NEW c \in CallIds, NEW step \in 1 .. 4,
         NEW type \in Types, NEW photo \in Photos,
         CompleteStep(c, step, type, photo)
  PROVE  ProfileInv'
<1>1. PICK u : u = Completed(step, type, photo)
  OBVIOUS
<1>2. CanComplete(step, type) /\ StartSave(c, u)
  BY <1>1 DEF CompleteStep
<1>3. Typed /\ WizardInv /\ UserTyped(user)
  BY DEF ProfileInv, Typed
<1>4. Edited(u) /\ StepOf(u, step, type)
  BY <1>1, <1>2, <1>3, StepEdit
<1>5. WizardWrites(Changes(u))
  BY <1>1, <1>2, <1>3, WizardStep
<1>6. "email" \notin DOMAIN Changes(u)
  BY <1>3, <1>4, MailOther DEF StepOf
<1>7. u.profilePhoto = user.profilePhoto \/ MayShow(u.profilePhoto)
  BY <1>4 DEF StepOf
<1>8. QED
  BY <1>2, <1>4, <1>5, <1>6, <1>7, StartPreserves

LEMMA UpdateProfilePreserves ==
  ASSUME ProfileInv, NEW c \in CallIds,
         NEW type \in Types, NEW photo \in Photos,
         UpdateProfile(c, type, photo)
  PROVE  ProfileInv'
<1>1. PICK u : u = [user EXCEPT !.accountType = Given(@, type),
                                !.profilePhoto = Given(@, photo)]
  OBVIOUS
<1>2. StartSave(c, u)
  BY <1>1 DEF UpdateProfile
<1>3. UserTyped(user)
  BY DEF ProfileInv, Typed
<1>4. /\ Edited(u)
      /\ u.onboardingStep = user.onboardingStep
      /\ u.onboardingCompleted = user.onboardingCompleted
      /\ u.email = user.email
      /\ u.profilePhoto = user.profilePhoto \/ MayShow(u.profilePhoto)
  BY <1>1, <1>3, ProfileEdit
<1>5. WizardWrites(Changes(u)) /\ "email" \notin DOMAIN Changes(u)
  BY <1>3, <1>4, WizardOther, MailOther
<1>6. QED
  BY <1>2, <1>4, <1>5, StartPreserves

LEMMA ChangeEmailPreserves ==
  ASSUME ProfileInv, NEW c \in CallIds, NEW e \in Emails, ChangeEmail(c, e)
  PROVE  ProfileInv'
<1>1. PICK u : u = [user EXCEPT !.email = e, !.isEmailVerified = FALSE]
  OBVIOUS
<1>2. StartSave(c, u)
  BY <1>1 DEF ChangeEmail
<1>3. UserTyped(user)
  BY DEF ProfileInv, Typed
<1>4. /\ Edited(u)
      /\ u.onboardingStep = user.onboardingStep
      /\ u.onboardingCompleted = user.onboardingCompleted
      /\ u.isEmailVerified = FALSE
      /\ u.profilePhoto = user.profilePhoto
  BY <1>1, <1>3, EmailEdit
<1>5. /\ WizardWrites(Changes(u))
      /\ "isEmailVerified" \in DOMAIN Changes(u) \/ ~user.isEmailVerified
  BY <1>3, <1>4, WizardOther, MailChange
<1>6. QED
  BY <1>2, <1>4, <1>5, StartPreserves

\* The steps before an upload's save, those of a push, and the ends of calls.
LEMMA QuietPreserves ==
  ASSUME ProfileInv, Quiet, Still, Typed', PhotoInv', PushInv'
  PROVE  ProfileInv'
  BY WizardQuiet, MailStill DEF ProfileInv

\* A call that is not about to prune devices leaves PushInv to the others.
LEMMA PushOthers ==
  ASSUME PushInv, NEW c \in CallIds, Others(c), UNCHANGED forgotten, calls'[c].pc # "clean"
  PROVE  PushInv'
  BY DEF PushInv, Others

LEMMA UploadPreserves ==
  ASSUME ProfileInv, NEW c \in CallIds,
         \/ \E f \in Files : UploadAvatar(c, f)
         \/ FindPrevious(c)
         \/ DeleteFile(c)
  PROVE  ProfileInv'
<1>1. Typed /\ PhotoInv /\ PushInv
  BY DEF ProfileInv
<1>2. CASE \E f \in Files : UploadAvatar(c, f)
  <2>1. PICK f \in Files : UploadAvatar(c, f)
    BY <1>2
  <2>2. PushInv'
    BY <1>1, <2>1, UploadFacts, PushOthers
  <2>3. QED
    BY <1>1, <2>1, <2>2, QuietUpload, PhotoUpload, QuietPreserves
<1>3. CASE FindPrevious(c)
  <2>1. PushInv'
    BY <1>1, <1>3, FindPreviousFacts, PushOthers
  <2>2. QED
    BY <1>1, <1>3, <2>1, QuietFindPrevious, PhotoFindPrevious, QuietPreserves
<1>4. CASE DeleteFile(c)
  <2>1. PushInv'
    BY <1>1, <1>4, DeleteFacts, PushOthers
  <2>2. QED
    BY <1>1, <1>4, <2>1, QuietDelete, PhotoDelete, QuietPreserves
<1>5. QED
  BY <1>2, <1>3, <1>4

LEMMA FindUserPreserves ==
  ASSUME ProfileInv, NEW c \in CallIds, FindUser(c)
  PROVE  ProfileInv'
<1>1. Typed /\ WizardInv /\ MailInv /\ PhotoInv /\ PushInv
  BY DEF ProfileInv
<1>2. Typed' /\ DOMAIN calls'[c].writes = {"profilePhoto"}
  BY <1>1, TypedFindUser
<1>3. /\ Others(c) /\ calls'[c].pc = "save"
      /\ UNCHANGED <<user, confirmed, misled, cleared, forgotten>>
  BY <1>1, FindUserFacts
<1>4. WizardInv'
  <2>1. WizardWrites(calls'[c].writes)
    BY <1>2 DEF WizardWrites
  <2>2. QED
    BY <1>1, <1>3, <2>1, WizardCall
<1>5. MailInv'
  BY <1>1, <1>2, <1>3, MailCall
<1>6. PhotoInv'
  BY <1>1, PhotoFindUser
<1>7. PushInv'
  BY <1>1, <1>3, PushOthers
<1>8. QED
  BY <1>2, <1>4, <1>5, <1>6, <1>7 DEF ProfileInv

LEMMA PushPreserves ==
  ASSUME ProfileInv, NEW c \in CallIds,
         \/ SendPush(c)
         \/ \E unreached \in SUBSET Devices : SendToMultiple(c, unreached)
         \/ CleanInvalidFcmTokens(c)
  PROVE  ProfileInv'
<1>1. Typed /\ PhotoInv /\ PushInv
  BY DEF ProfileInv
<1>2. CASE SendPush(c)
  <2>1. PushInv'
    BY <1>1, <1>2, PushFacts, PushOthers
  <2>2. QED
    BY <1>1, <1>2, <2>1, QuietPush, PhotoPush, QuietPreserves
<1>3. CASE \E unreached \in SUBSET Devices : SendToMultiple(c, unreached)
  <2>1. PICK unreached : SendToMultiple(c, unreached)
    BY <1>3
  <2>2. /\ Others(c) /\ UNCHANGED forgotten
        /\ calls'[c].pc = "clean"
             => calls'[c].tokens \subseteq forgotten \cup calls'[c].unreached
    BY <1>1, <2>1, SentFacts, NoCallFacts
  <2>3. PushInv'
    BY <1>1, <2>2 DEF PushInv, Others
  <2>4. QED
    BY <1>1, <2>1, <2>3, QuietSent, PhotoSent, QuietPreserves
<1>4. CASE CleanInvalidFcmTokens(c)
  <2>1. Others(c) /\ calls'[c] = NoCall /\ UNCHANGED forgotten
    BY <1>1, <1>4, EndFacts DEF CleanInvalidFcmTokens
  <2>2. PushInv'
    BY <1>1, <2>1, NoCallFacts, PushOthers
  <2>3. QED
    BY <1>1, <1>4, <2>2, QuietClean, PhotoClean, QuietPreserves
<1>5. QED
  BY <1>2, <1>3, <1>4

LEMMA SavePreserves ==
  ASSUME ProfileInv, NEW c \in CallIds, Save(c)
  PROVE  ProfileInv'
<1>1. Typed /\ WizardInv /\ MailInv /\ PhotoInv /\ PushInv
  BY DEF ProfileInv
<1>2. Typed' /\ Others(c) /\ calls'[c] = NoCall
  BY <1>1, TypedSave
<1>3. PushInv'
  BY <1>1, <1>2, NoCallFacts, PushOthers DEF Save
<1>4. QED
  BY <1>1, <1>2, <1>3, WizardSave, MailSave, PhotoSave DEF ProfileInv

LEMMA FailPreserves ==
  ASSUME ProfileInv, NEW c \in CallIds, Fail(c)
  PROVE  ProfileInv'
<1>1. Typed /\ PhotoInv /\ PushInv
  BY DEF ProfileInv
<1>2. Others(c) /\ calls'[c] = NoCall /\ UNCHANGED forgotten
  BY <1>1, EndFacts DEF Fail
<1>3. PushInv'
  BY <1>1, <1>2, NoCallFacts, PushOthers
<1>4. QED
  BY <1>1, <1>3, QuietFail, PhotoFail, QuietPreserves

\* The atomic updates, and FCM.
LEMMA UpdatePreserves ==
  ASSUME ProfileInv,
         \/ SetVerificationFlag
         \/ \E d \in Devices : AddFcmToken(d) \/ RemoveFcmToken(d) \/ Forget(d)
  PROVE  ProfileInv'
<1>1. Typed /\ WizardInv /\ MailInv /\ PhotoInv /\ PushInv
  BY DEF ProfileInv
<1>2. CASE SetVerificationFlag
  <2>1. PushInv'
    BY <1>1, <1>2, VerifiedFacts DEF PushInv
  <2>2. QED
    BY <1>1, <1>2, <2>1, QuietVerified, WizardQuiet, MailVerified, PhotoVerified DEF ProfileInv
<1>3. CASE \E d \in Devices : AddFcmToken(d) \/ RemoveFcmToken(d) \/ Forget(d)
  <2>1. PICK d \in Devices : AddFcmToken(d) \/ RemoveFcmToken(d) \/ Forget(d)
    BY <1>3
  <2>2. UNCHANGED calls /\ forgotten \subseteq forgotten'
    BY <2>1 DEF AddFcmToken, RemoveFcmToken, Forget
  <2>3. PushInv'
    BY <1>1, <2>2 DEF PushInv
  <2>4. QED
    BY <1>1, <2>1, <2>3, QuietDevice, PhotoDevice, QuietPreserves
<1>4. QED
  BY <1>2, <1>3

LEMMA StutterPreserves ==
  ASSUME ProfileInv, UNCHANGED vars
  PROVE  ProfileInv'
  BY DEF vars, mailHistory, formHistory, ProfileInv, Typed, Saving, WizardInv, WizardUser,
         WizardWrites, TypeKept, MailInv, VerifiedIsCurrent, PhotoInv, PhotoIsStored,
         Replacing, Fresh, Unknown, Upload, PushInv

LEMMA NextPreserves ==
  ASSUME ProfileInv, [Next]_vars
  PROVE  ProfileInv'
<1>1. CASE SetVerificationFlag
  BY <1>1, UpdatePreserves
<1>2. CASE \E d \in Devices : AddFcmToken(d) \/ RemoveFcmToken(d) \/ Forget(d)
  BY <1>2, UpdatePreserves
<1>3. ASSUME NEW c \in CallIds, NEW type \in Types, NEW photo \in Photos,
             \/ \E step \in 1 .. 4 : CompleteStep(c, step, type, photo)
             \/ UpdateProfile(c, type, photo)
      PROVE  ProfileInv'
  BY <1>3, CompleteStepPreserves, UpdateProfilePreserves
<1>4. ASSUME NEW c \in CallIds, \E e \in Emails : ChangeEmail(c, e)
      PROVE  ProfileInv'
  BY <1>4, ChangeEmailPreserves
<1>5. ASSUME NEW c \in CallIds,
             \/ \E f \in Files : UploadAvatar(c, f)
             \/ FindPrevious(c) \/ DeleteFile(c) \/ FindUser(c)
      PROVE  ProfileInv'
  BY <1>5, UploadPreserves, FindUserPreserves
<1>6. ASSUME NEW c \in CallIds,
             \/ SendPush(c) \/ CleanInvalidFcmTokens(c)
             \/ \E unreached \in SUBSET Devices : SendToMultiple(c, unreached)
      PROVE  ProfileInv'
  BY <1>6, PushPreserves
<1>7. ASSUME NEW c \in CallIds, Save(c) \/ Fail(c)
      PROVE  ProfileInv'
  BY <1>7, SavePreserves, FailPreserves
<1>8. CASE UNCHANGED vars
  BY <1>8, StutterPreserves
<1>9. QED
  BY <1>1, <1>2, <1>3, <1>4, <1>5, <1>6, <1>7, <1>8 DEF Next

\* The strengthening that carries the theorems below: what every call about to be
\* saved would write, what every upload knows of its avatars, and what every push
\* found to have failed.
THEOREM ProfileInvariance == Spec => []ProfileInv
<1>1. ProfileInv /\ [Next]_vars => ProfileInv'
  BY NextPreserves
<1>2. QED
  BY <1>1, ProfileStart, PTL DEF Spec

\* However many steps of the wizard and profile forms overlap, repeat and fail, a
\* completed onboarding has an account type, unless a form that named none was saved
\* after the wizard brought it.
THEOREM CompletedHasTypeAlways == Spec => []CompletedHasType
<1>1. ProfileInv => CompletedHasType
  BY DEF ProfileInv, WizardInv, WizardUser, TypeKept, CompletedHasType
<1>2. QED
  BY <1>1, ProfileInvariance, PTL

\* The step that getStatus offers is one that completeStep accepts.
THEOREM WizardNeverStuckAlways == Spec => []WizardNeverStuck
<1>1. ProfileInv => WizardNeverStuck
  <2>1. SUFFICES ASSUME ProfileInv, ~user.onboardingCompleted
                 PROVE  \E type \in AccountTypes : CanComplete(NextStep, type)
    BY DEF WizardNeverStuck
  <2>2. user.onboardingStep \in 0 .. 3
    BY <2>1 DEF ProfileInv, Typed, UserTyped, WizardInv, WizardUser
  <2>3. NextStep = user.onboardingStep + 1
    BY <2>1, <2>2 DEF NextStep
  <2>4. PICK type \in AccountTypes : TRUE
    BY TypesAssumption
  <2>5. CanComplete(NextStep, type)
    BY <2>1, <2>3, <2>4, NothingAssumption DEF CanComplete
  <2>6. QED
    BY <2>4, <2>5
<1>2. QED
  BY <1>1, ProfileInvariance, PTL

\* changeEmail takes the verification off with the address, unless it had read the
\* user before the verification that it then leaves in place.
THEOREM VerifiedIsCurrentAlways == Spec => []VerifiedIsCurrent
<1>1. ProfileInv => VerifiedIsCurrent
  BY DEF ProfileInv, MailInv
<1>2. QED
  BY <1>1, ProfileInvariance, PTL

\* However many uploads overlap, and whichever addresses the forms give: the avatar
\* shown is gone only with an upload that is replacing it or was cut short, or because
\* a form named it after it had been deleted.
THEOREM PhotoIsStoredAlways == Spec => []PhotoIsStored
<1>1. ProfileInv => PhotoIsStored
  BY DEF ProfileInv, PhotoInv
<1>2. QED
  BY <1>1, ProfileInvariance, PTL

\* No save writes the devices; a push prunes what failed.
LEMMA StepPrunes ==
  ASSUME ProfileInv, Next, NEW d \in user.fcmTokens \ user'.fcmTokens
  PROVE  \/ RemoveFcmToken(d)
         \/ \E c \in CallIds : /\ CleanInvalidFcmTokens(c)
                               /\ d \in forgotten \cup calls[c].unreached
<1>1. Typed /\ UserTyped(user)
  BY DEF ProfileInv, Typed
<1>2. CASE SetVerificationFlag
  BY <1>1, <1>2 DEF SetVerificationFlag, UserTyped, Fields
<1>3. ASSUME NEW e \in Devices, AddFcmToken(e) \/ RemoveFcmToken(e) \/ Forget(e)
      PROVE  RemoveFcmToken(d)
  <2>1. CASE AddFcmToken(e)
    BY <1>1, <2>1 DEF AddFcmToken, UserTyped, Fields
  <2>2. CASE RemoveFcmToken(e)
    <3>1. user'.fcmTokens = user.fcmTokens \ {e}
      BY <1>1, <2>2 DEF RemoveFcmToken, UserTyped, Fields
    <3>2. d = e
      BY <3>1
    <3>3. QED
      BY <2>2, <3>2
  <2>3. CASE Forget(e)
    BY <2>3 DEF Forget
  <2>4. QED
    BY <1>3, <2>1, <2>2, <2>3
<1>4. ASSUME NEW c \in CallIds, CleanInvalidFcmTokens(c)
      PROVE  d \in forgotten \cup calls[c].unreached
  <2>1. user'.fcmTokens = user.fcmTokens \ calls[c].tokens
    BY <1>1, <1>4 DEF CleanInvalidFcmTokens, UserTyped, Fields
  <2>2. calls[c].tokens \subseteq forgotten \cup calls[c].unreached
    BY <1>4 DEF ProfileInv, PushInv, CleanInvalidFcmTokens, At
  <2>3. QED
    BY <2>1, <2>2
<1>5. ASSUME NEW c \in CallIds, Save(c)
      PROVE  FALSE
  BY <1>1, <1>5, SaveFacts DEF WritesTyped, Fields
<1>6. ASSUME NEW c \in CallIds,
             \/ \E type \in Types, photo \in Photos :
                  \/ \E step \in 1 .. 4 : CompleteStep(c, step, type, photo)
                  \/ UpdateProfile(c, type, photo)
             \/ \E e \in Emails : ChangeEmail(c, e)
             \/ \E f \in Files : UploadAvatar(c, f)
             \/ FindPrevious(c) \/ DeleteFile(c) \/ FindUser(c)
             \/ SendPush(c)
             \/ \E unreached \in SUBSET Devices : SendToMultiple(c, unreached)
             \/ Fail(c)
      PROVE  FALSE
  BY <1>6 DEF CompleteStep, UpdateProfile, ChangeEmail, StartSave, UploadAvatar,
              FindPrevious, DeleteFile, FindUser, SendPush, SendToMultiple, Fail
<1>7. QED
  BY <1>2, <1>3, <1>4, <1>5, <1>6 DEF Next

\* A live device goes only when its owner unregisters it, or when an outage kept a
\* push from it.
THEOREM OnlyFailedTokensGoAlways == Spec => OnlyFailedTokensGo
<1> DEFINE Pruned(d) ==
      \/ RemoveFcmToken(d)
      \/ \E c \in CallIds : /\ CleanInvalidFcmTokens(c)
                            /\ d \in forgotten \cup calls[c].unreached
<1>1. ProfileInv /\ [Next]_vars => [\A d \in user.fcmTokens \ user'.fcmTokens : Pruned(d)]_vars
  <2>1. SUFFICES ASSUME ProfileInv, Next
                 PROVE  \A d \in user.fcmTokens \ user'.fcmTokens : Pruned(d)
    OBVIOUS
  <2>2. QED
    BY <2>1, StepPrunes
<1>2. QED
  BY <1>1, ProfileInvariance, PTL DEF Spec, OnlyFailedTokensGo

=============================================================================
