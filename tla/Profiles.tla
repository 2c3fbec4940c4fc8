------------------------------- MODULE Profiles -------------------------------
(***************************************************************************)
(* The document of one user as its owner edits it: the onboarding wizard,  *)
(* the profile form, the avatar, the e-mail address, the device tokens.    *)
(* Every call but an atomic update reads the document, edits the copy and  *)
(* saves the fields it changed; calls overlap at their awaits, and may     *)
(* fail at each of them.  The avatars are kept in the upload storage, the  *)
(* devices at Firebase Cloud Messaging.                                    *)
(***************************************************************************)
EXTENDS Integers, FiniteSets

CONSTANTS
  AccountTypes,  \* traveler, requester, both
  Emails,        \* addresses the user may have
  Files,         \* avatars that may be uploaded: bounds the uploads
  Devices,       \* device tokens that may be registered
  CallIds,       \* calls that may be in flight together
  External,      \* the address of a photo that the upload storage does not keep
  Nothing,       \* an unset field; null, in a form
  Omitted        \* what a form does not mention

ASSUME NothingAssumption ==
  /\ {External, Nothing, Omitted} \cap (Files \cup AccountTypes) = {}
  /\ Omitted \notin {External, Nothing}

ASSUME TypesAssumption == AccountTypes # {}

VARIABLES
  user,       \* the user's document
  files,      \* the avatars in the storage
  forgotten,  \* devices that no longer exist for FCM
  calls,      \* the calls in flight
  confirmed,  \* history: the address for which the e-mail was verified last
  misled,     \* history: the last change of the address ran across a verification
  cut,        \* history: avatars deleted by an upload that ended before its save
  cleared,    \* history: the account type was unset by the profile form
  outdated    \* history: a form gave the photo, an avatar that had been deleted

\* What the histories of the address and of the fields of a form are about.
mailHistory == <<confirmed, misled>>
formHistory == <<cleared, outdated>>

vars == <<user, files, forgotten, calls, mailHistory, cut, formHistory>>

NewUser(e) ==
  [onboardingStep |-> 0, onboardingCompleted |-> FALSE, accountType |-> Nothing,
   profilePhoto |-> Nothing, email |-> e, isEmailVerified |-> FALSE, fcmTokens |-> {}]

PCs == {"idle", "findPrevious", "delete", "findUser", "save", "send", "clean"}

\* writes: the fields the call changed on its copy, with their new values; file and
\* previous: the avatars an upload brings and replaces; tokens: those of a push,
\* then the ones it failed for; unreached: those an outage kept from it.  History:
\* across, whether the e-mail was verified since the call read the user.
NoCall ==
  [pc |-> "idle", writes |-> <<>>, file |-> Nothing, previous |-> Nothing,
   tokens |-> {}, unreached |-> {}, across |-> FALSE]

\* register takes an account type if it is given one; a Google account comes with
\* a verified address and perhaps a photo.
Init ==
  /\ \E e \in Emails :
       \/ /\ \E type \in AccountTypes \cup {Nothing} :
              user = [NewUser(e) EXCEPT !.accountType = type]
          /\ confirmed = Nothing
       \/ /\ \E photo \in {External, Nothing} :
              user = [NewUser(e) EXCEPT !.profilePhoto = photo, !.isEmailVerified = TRUE]
          /\ confirmed = e
  /\ files = [f \in Files |-> "unused"]
  /\ forgotten = {}
  /\ calls = [c \in CallIds |-> NoCall]
  /\ misled = FALSE
  /\ cut = {}
  /\ cleared = FALSE
  /\ outdated = FALSE

-----------------------------------------------------------------------------

\* What a Mongoose document knows to have changed: fields that got another value.
Changes(edited) ==
  [f \in {g \in DOMAIN user : edited[g] # user[g]} |-> edited[f]]

At(c, pc) == calls[c].pc = pc

\* A call that has read the user, edited the copy and stands before save().
StartSave(c, edited) ==
  /\ At(c, "idle")
  /\ calls' = [calls EXCEPT ![c] = [NoCall EXCEPT !.pc = "save", !.writes = Changes(edited)]]
  /\ UNCHANGED <<user, files, forgotten, mailHistory, cut, formHistory>>

End(c) == calls' = [calls EXCEPT ![c] = NoCall]

Written(c, field) == field \in DOMAIN calls[c].writes

\* save() of every call below.  Only the wizard writes onboardingStep, only an
\* upload has a file of its own.
Save(c) ==
  LET writes == calls[c].writes
  IN /\ At(c, "save")
     /\ user' = [f \in DOMAIN user |-> IF f \in DOMAIN writes THEN writes[f] ELSE user[f]]
     /\ misled' = IF Written(c, "email") THEN calls[c].across ELSE misled
     /\ cleared' = IF Written(c, "accountType")
                   THEN ~Written(c, "onboardingStep") /\ writes.accountType = Nothing
                   ELSE cleared
     /\ outdated' = IF Written(c, "profilePhoto")
                    THEN /\ calls[c].file = Nothing
                         /\ writes.profilePhoto \in Files
                         /\ files[writes.profilePhoto] = "deleted"
                    ELSE outdated
     /\ End(c)
     /\ UNCHANGED <<files, forgotten, confirmed, cut>>

-----------------------------------------------------------------------------
(* onboarding.service.ts *)

\* Mutant: the account type is optional in every step.
CanComplete_NoType(step, type) ==
  ~user.onboardingCompleted /\ step = user.onboardingStep + 1

CanComplete(step, type) ==
  /\ ~user.onboardingCompleted
  /\ step = user.onboardingStep + 1
  /\ step = 3 => type \in AccountTypes

\* A field that the form does not mention stays, null unsets it.
Given(old, new) == IF new = Omitted THEN old ELSE new

\* Mutant: the last step is counted by itself, the wizard finished by a later call.
Completed_StepOnly(step, type, photo) ==
  CASE step = 3 -> [user EXCEPT !.onboardingStep = 3, !.accountType = type]
    [] OTHER -> [user EXCEPT !.onboardingStep = step]

Completed(step, type, photo) ==
  CASE step = 3 -> [user EXCEPT !.onboardingStep = 3, !.accountType = type]
    [] step = 4 -> [user EXCEPT !.onboardingStep = 4, !.onboardingCompleted = TRUE,
                                !.profilePhoto = Given(@, photo)]
    [] OTHER -> [user EXCEPT !.onboardingStep = step]

CompleteStep(c, step, type, photo) ==
  /\ CanComplete(step, type)
  /\ StartSave(c, Completed(step, type, photo))

\* The step that GET onboarding/status offers next.
NextStep ==
  IF user.onboardingCompleted THEN Nothing
  ELSE IF user.onboardingStep < 4 THEN user.onboardingStep + 1 ELSE 4

-----------------------------------------------------------------------------
(* users.service.ts *)

\* PATCH users/profile.  Neither the validation nor the handler keeps a null out.
UpdateProfile(c, type, photo) ==
  StartSave(c, [user EXCEPT !.accountType = Given(@, type), !.profilePhoto = Given(@, photo)])

\* Mutant: a verified address stays verified when it is changed.
ChangeEmail_Verified(c, e) == StartSave(c, [user EXCEPT !.email = e])

\* The password is the caller's choice; an address found to be taken, in the query
\* or by the index, fails the call.
ChangeEmail(c, e) ==
  StartSave(c, [user EXCEPT !.email = e, !.isEmailVerified = FALSE])

\* One findByIdAndUpdate: the address verified is the one then stored.
SetVerificationFlag ==
  /\ user' = [user EXCEPT !.isEmailVerified = TRUE]
  /\ confirmed' = user.email
  /\ misled' = FALSE
  /\ calls' = [c \in CallIds |-> [calls[c] EXCEPT !.across = "email" \in DOMAIN calls[c].writes]]
  /\ UNCHANGED <<files, forgotten, cut, formHistory>>

AddFcmToken(d) ==
  /\ d \notin forgotten
  /\ user' = [user EXCEPT !.fcmTokens = @ \cup {d}]
  /\ UNCHANGED <<files, forgotten, calls, mailHistory, cut, formHistory>>

RemoveFcmToken(d) ==
  /\ user' = [user EXCEPT !.fcmTokens = @ \ {d}]
  /\ UNCHANGED <<files, forgotten, calls, mailHistory, cut, formHistory>>

-----------------------------------------------------------------------------
(* Upload of an avatar. *)

\* The image is stored under a new name before the handler looks at the user.
UploadAvatar(c, f) ==
  /\ At(c, "idle")
  /\ files[f] = "unused"
  /\ files' = [files EXCEPT ![f] = "stored"]
  /\ calls' = [calls EXCEPT ![c] = [NoCall EXCEPT !.pc = "findPrevious", !.file = f]]
  /\ UNCHANGED <<user, forgotten, mailHistory, cut, formHistory>>

\* Only a photo in the storage is deleted.
FindPrevious(c) ==
  /\ At(c, "findPrevious")
  /\ calls' = [calls EXCEPT ![c].previous = user.profilePhoto,
                            ![c].pc = IF user.profilePhoto \in Files THEN "delete" ELSE "findUser"]
  /\ UNCHANGED <<user, files, forgotten, mailHistory, cut, formHistory>>

\* A file that is missing, or that the cloud does not delete, is passed over.
DeleteFile(c) ==
  /\ At(c, "delete")
  /\ files' \in {files, [files EXCEPT ![calls[c].previous] = "deleted"]}
  /\ calls' = [calls EXCEPT ![c].pc = "findUser"]
  /\ UNCHANGED <<user, forgotten, mailHistory, cut, formHistory>>

\* Mutant: an upload whose user has a photo by now leaves it as it is.
FindUser_KeepsPhoto(c) ==
  /\ At(c, "findUser")
  /\ calls' = [calls EXCEPT ![c].pc = "save",
       ![c].writes = IF user.profilePhoto # Nothing THEN <<>>
                     ELSE Changes([user EXCEPT !.profilePhoto = calls[c].file])]
  /\ UNCHANGED <<user, files, forgotten, mailHistory, cut, formHistory>>

\* updateProfile reads the user again.
FindUser(c) ==
  /\ At(c, "findUser")
  /\ calls' = [calls EXCEPT ![c].pc = "save",
       ![c].writes = Changes([user EXCEPT !.profilePhoto = calls[c].file])]
  /\ UNCHANGED <<user, files, forgotten, mailHistory, cut, formHistory>>

-----------------------------------------------------------------------------
(* A push notification. *)

\* FCM forgets a device, for good: the app is gone from it.
Forget(d) ==
  /\ forgotten' = forgotten \cup {d}
  /\ UNCHANGED <<user, files, calls, mailHistory, cut, formHistory>>

SendPush(c) ==
  /\ At(c, "idle")
  /\ user.fcmTokens # {}
  /\ calls' = [calls EXCEPT ![c] = [NoCall EXCEPT !.pc = "send", !.tokens = user.fcmTokens]]
  /\ UNCHANGED <<user, files, forgotten, mailHistory, cut, formHistory>>

\* Mutant: the tokens of a push are all reported when there is any of them.
FailedTokens_All(tokens, unreached) == tokens

\* sendToDevice answers false for a token that is unknown and for any other error.
FailedTokens(tokens, unreached) == (tokens \cap forgotten) \cup unreached

SendToMultiple(c, unreached) ==
  LET failed == FailedTokens(calls[c].tokens, unreached)
  IN /\ At(c, "send")
     /\ unreached \subseteq calls[c].tokens
     /\ IF failed = {}
        THEN End(c)
        ELSE calls' = [calls EXCEPT ![c].pc = "clean", ![c].tokens = failed,
                                    ![c].unreached = unreached]
     /\ UNCHANGED <<user, files, forgotten, mailHistory, cut, formHistory>>

CleanInvalidFcmTokens(c) ==
  /\ At(c, "clean")
  /\ user' = [user EXCEPT !.fcmTokens = @ \ calls[c].tokens]
  /\ End(c)
  /\ UNCHANGED <<files, forgotten, mailHistory, cut, formHistory>>

-----------------------------------------------------------------------------

\* The avatar that an upload has deleted and not yet replaced.
Replacing(c) ==
  IF calls[c].pc \in {"findUser", "save"} THEN {calls[c].previous} \cap Files ELSE {}

\* MongoDB fails the call, or the process stops.
Fail(c) ==
  /\ ~At(c, "idle")
  /\ cut' = cut \cup {f \in Replacing(c) : files[f] = "deleted"}
  /\ End(c)
  /\ UNCHANGED <<user, files, forgotten, mailHistory, formHistory>>

\* What a form may say.  A photo is any address: one kept elsewhere, or that of an
\* avatar whose upload has ended, be it the one shown, an older one or a deleted one.
Types == AccountTypes \cup {Nothing, Omitted}

Photos ==
  {External, Nothing, Omitted}
    \cup {f \in Files : files[f] # "unused" /\ \A c \in CallIds : calls[c].file # f}

Next ==
  \/ SetVerificationFlag
  \/ \E d \in Devices : AddFcmToken(d) \/ RemoveFcmToken(d) \/ Forget(d)
  \/ \E c \in CallIds :
       \/ \E type \in Types, photo \in Photos :
            \/ \E step \in 1 .. 4 : CompleteStep(c, step, type, photo)
            \/ UpdateProfile(c, type, photo)
       \/ \E e \in Emails : ChangeEmail(c, e)
       \/ \E f \in Files : UploadAvatar(c, f)
       \/ FindPrevious(c) \/ DeleteFile(c) \/ FindUser(c)
       \/ SendPush(c) \/ CleanInvalidFcmTokens(c)
       \/ \E unreached \in SUBSET Devices : SendToMultiple(c, unreached)
       \/ Save(c)
       \/ Fail(c)

Spec == Init /\ [][Next]_vars

-----------------------------------------------------------------------------

\* However the steps of the wizard and the profile form overlap, repeat and fail, a
\* user whose onboarding is completed has an account type, unless it was the profile
\* form that unset it last.
CompletedHasType ==
  user.onboardingCompleted => user.accountType # Nothing \/ cleared

\* Until onboarding is completed, completeStep accepts the step that getStatus
\* offers: no interleaving leaves a user in front of a step that is refused.
WizardNeverStuck ==
  ~user.onboardingCompleted =>
    \E type \in AccountTypes : CanComplete(NextStep, type)

\* An avatar that a user shows is in the storage, but while the upload that has
\* deleted it is under way, if that upload failed before it saved the new one, or
\* if a form gave an address that was out of date by then.
PhotoIsStored ==
  user.profilePhoto \in Files =>
    \/ files[user.profilePhoto] = "stored"
    \/ user.profilePhoto \in cut
    \/ \E c \in CallIds : user.profilePhoto \in Replacing(c)
    \/ outdated

\* Besides its owner, only a push takes a device token off the user, and only one
\* that failed for this device: because FCM had forgotten it, or in an outage.
OnlyFailedTokensGo ==
  [][\A d \in user.fcmTokens \ user'.fcmTokens :
       \/ RemoveFcmToken(d)
       \/ \E c \in CallIds : /\ CleanInvalidFcmTokens(c)
                             /\ d \in forgotten \cup calls[c].unreached]_vars

\* The address shown as verified is the one for which the user was verified, unless
\* the verification fell between the read and the save of the last changeEmail.
VerifiedIsCurrent ==
  user.isEmailVerified => confirmed = user.email \/ misled

=============================================================================
