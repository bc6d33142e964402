------------------------------ MODULE Session ------------------------------
(***************************************************************************)
(* How a process gets its Jira session: the application shell              *)
(* (app_shell.rs) with its connection form, the checks of config.rs, and   *)
(* the system keyring behind credential_store.rs, whose operations run on  *)
(* threads of their own.  A login stands for a URL, an email and a token;  *)
(* the URL and the email of the form are one input, the token another.     *)
(***************************************************************************)
EXTENDS Naturals, Sequences, Absent

CONSTANTS
    Logins,      \* the tokens that can be entered
    Oversized,   \* those that are too large for the keyring
    FirstVaults, \* what the keyring may hold at first
    MaxStarts, MaxTries

Empty == "empty"           \* an input without a token
Malformed == "malformed"   \* a token with white space inside
Unreadable == "unreadable" \* an entry of another version, or damaged

(* AppShell: what it shows and what its form holds beside the token. *)
Shells == [dashboard : BOOLEAN, connecting : BOOLEAN, error : BOOLEAN,
           warning : BOOLEAN, named : BOOLEAN, remember : BOOLEAN,
           attempted : BOOLEAN, entering : BOOLEAN]

ASSUME SessionAssumption ==
    /\ Oversized \subseteq Logins
    /\ {Empty, Malformed, Unreadable, None} \cap Logins = {}
    /\ None \notin Shells \cup {"deleted", "absent"}

VARIABLES
    vault,   \* the keyring's only entry: a login, Unreadable, or None
    shell,   \* AppShell, or None while no process runs
    inputs,  \* the token inputs made so far; the shell's own is the last
    dialog,  \* the token input the open dialog shows, or 0
    call,    \* the task that builds a session, or None
    keeping,  \* the login the keyring's thread is to save, or None
    forget,  \* saved_login_delete_state with the thread's answer
    remembered, \* history: the logins Jira accepted for a form that remembers
    forget_raced,   \* history: a login was forgotten while one was being saved
    starts, tries

sessionVars == <<vault, shell, inputs, dialog, call, keeping, forget,
                 remembered, forget_raced, starts, tries>>

NotForgetting == [state |-> "idle", answer |-> None]

SessionInit ==
    /\ vault \in FirstVaults
    /\ shell = None /\ inputs = <<Empty>> /\ dialog = 0
    /\ call = None /\ keeping = None /\ forget = NotForgetting
    /\ remembered = {vault} /\ forget_raced = FALSE
    /\ starts = 0 /\ tries = 0

---------------------------------------------------------------------------
(* Configuration *)

(* connection_readiness, which is also what config.rs accepts: the URL and  *)
(* the email are plausible and the token is one word.                       *)
connection_readiness(named, token) == named /\ token \in Logins

api_token == inputs[Len(inputs)]

NewShell == [dashboard |-> FALSE, connecting |-> FALSE, error |-> FALSE,
             warning |-> FALSE, named |-> FALSE, remember |-> TRUE,
             attempted |-> FALSE, entering |-> FALSE]

SessionTask(from, login, remember) ==
    [from |-> from, login |-> login, remember |-> remember,
     at |-> IF from = "vault" THEN "load" ELSE "discover_cloud_id"]

(* startup_from_values: without any variable the keyring is looked at, with *)
(* all of them the session is built at once, and what is missing or invalid *)
(* leads to the form.                                                       *)
Launch ==
    /\ shell = None /\ starts < MaxStarts
    /\ starts' = starts + 1
    /\ \/ /\ shell' = [NewShell EXCEPT !.connecting = TRUE]
          /\ call' = SessionTask("vault", None, FALSE)
       \/ /\ \/ shell' = [NewShell EXCEPT !.dashboard = TRUE]
             \/ shell' = [NewShell EXCEPT !.error = TRUE]
          /\ UNCHANGED call
    /\ UNCHANGED <<vault, inputs, dialog, keeping, forget, remembered, forget_raced, tries>>

(* The process ends, and its threads with it. *)
Quit ==
    /\ shell # None
    /\ shell' = None /\ inputs' = <<Empty>> /\ dialog' = 0
    /\ call' = None /\ keeping' = None /\ forget' = NotForgetting
    /\ UNCHANGED <<vault, remembered, forget_raced, starts, tries>>

---------------------------------------------------------------------------
(* The form *)

onboarding_busy_policy == shell.connecting

CanUseForm == shell # None /\ ~shell.dashboard /\ ~onboarding_busy_policy
InDialog == CanUseForm /\ dialog # 0

open_connection_dialog ==
    /\ CanUseForm /\ dialog = 0
    /\ dialog' = Len(inputs)
    /\ UNCHANGED <<vault, shell, inputs, call, keeping, forget, remembered, forget_raced,
                   starts, tries>>

CancelDialog ==
    /\ InDialog
    /\ dialog' = 0
    /\ UNCHANGED <<vault, shell, inputs, call, keeping, forget, remembered, forget_raced,
                   starts, tries>>

EnterToken(token) ==
    /\ InDialog
    /\ inputs' = [inputs EXCEPT ![dialog] = token]
    /\ shell' = IF dialog = Len(inputs)  \* the input the shell subscribed to
                THEN [shell EXCEPT !.entering = TRUE, !.attempted = FALSE]
                ELSE shell
    /\ UNCHANGED <<vault, dialog, call, keeping, forget, remembered, forget_raced, starts, tries>>

EnterSite(named) ==
    /\ InDialog
    /\ shell' = [shell EXCEPT !.named = named, !.entering = TRUE, !.attempted = FALSE]
    /\ UNCHANGED <<vault, inputs, dialog, call, keeping, forget, remembered, forget_raced,
                   starts, tries>>

ToggleRemember ==
    /\ InDialog
    /\ shell' = [shell EXCEPT !.remember = ~@]
    /\ UNCHANGED <<vault, inputs, dialog, call, keeping, forget, remembered, forget_raced,
                   starts, tries>>

(* validation_guidance, of what the dialog shows *)
guidance_shown ==
    /\ InDialog
    /\ shell.attempted \/ shell.entering
    /\ ~connection_readiness(shell.named, inputs[dialog])

(* The button, or Enter in an input the shell listens to: the shell reads   *)
(* its own token input, and goes on with an empty one when it is sent off.  *)
connect ==
    /\ InDialog /\ tries < MaxTries
    /\ IF connection_readiness(shell.named, api_token)
       THEN /\ tries' = tries + 1
            /\ call' = SessionTask("form", api_token, shell.remember)
            /\ inputs' = Append(inputs, Empty)
            /\ shell' = [shell EXCEPT !.connecting = TRUE, !.error = FALSE,
                                      !.attempted = FALSE, !.entering = FALSE]
       ELSE /\ shell' = [shell EXCEPT !.attempted = TRUE]
            /\ UNCHANGED <<inputs, call, tries>>
    /\ UNCHANGED <<vault, dialog, keeping, forget, remembered, forget_raced, starts>>

---------------------------------------------------------------------------
(* The task *)

Proceeds(step) == /\ call' = [call EXCEPT !.at = step]
                  /\ UNCHANGED <<shell, dialog, keeping, remembered>>

Fails == /\ call' = None
         /\ shell' = [shell EXCEPT !.connecting = FALSE, !.error = TRUE]
         /\ UNCHANGED <<dialog, keeping, remembered>>

(* An entry that cannot be read, and a keyring that does not answer, only   *)
(* warn: the form is free again.                                            *)
load_saved_credentials ==
    /\ call # None /\ call.at = "load"
    /\ \/ /\ vault \in Logins
          /\ call' = [call EXCEPT !.at = "discover_cloud_id", !.login = vault]
          /\ UNCHANGED shell
       \/ /\ vault = None /\ call' = None
          /\ shell' = [shell EXCEPT !.connecting = FALSE]
       \/ call' = None /\ shell' = [shell EXCEPT !.connecting = FALSE, !.warning = TRUE]
    /\ UNCHANGED <<vault, inputs, dialog, keeping, forget, remembered, forget_raced, starts, tries>>

discover_cloud_id ==
    /\ call # None /\ call.at = "discover_cloud_id"
    /\ Proceeds("ensure_authenticated_user") \/ Fails
    /\ UNCHANGED <<vault, inputs, forget, forget_raced, starts, tries>>

(* Jira names the user of the token, or rejects it; a user of another site  *)
(* is no answer.                                                            *)
ensure_authenticated_user ==
    /\ call # None /\ call.at = "ensure_authenticated_user"
    /\ \/ /\ call' = [call EXCEPT !.at = "open_store"]
          /\ remembered' = IF call.remember THEN remembered \cup {call.login}
                           ELSE remembered
          /\ UNCHANGED <<shell, dialog, keeping>>
       \/ Fails
    /\ UNCHANGED <<vault, inputs, forget, forget_raced, starts, tries>>

(* SavedCredentials::new refuses what the keyring could not hold. *)
credentials_to_save ==
    IF call.remember /\ call.login \notin Oversized THEN call.login ELSE None

(* The dashboard is set and the dialog closed before the keyring is asked.  *)
open_store ==
    /\ call # None /\ call.at = "open_store"
    /\ \/ /\ call' = None
          /\ shell' = [shell EXCEPT
                         !.dashboard = TRUE, !.connecting = FALSE, !.error = FALSE,
                         !.warning = IF call.from = "vault" THEN @
                                     ELSE call.remember /\ call.login \in Oversized]
          /\ dialog' = 0
          /\ keeping' = credentials_to_save
          /\ UNCHANGED remembered
       \/ Fails
    /\ UNCHANGED <<vault, inputs, forget, forget_raced, starts, tries>>

---------------------------------------------------------------------------
(* The keyring *)

save_credentials ==
    /\ keeping # None
    /\ keeping' = None
    /\ \/ vault' = keeping /\ UNCHANGED shell
       \/ shell' = [shell EXCEPT !.warning = TRUE] /\ UNCHANGED vault
    /\ UNCHANGED <<inputs, dialog, call, forget, remembered, forget_raced, starts, tries>>

begin_forget_saved_login ==
    /\ shell # None /\ shell.dashboard /\ forget.state # "deleting"
    /\ forget' = [state |-> "deleting", answer |-> None]
    /\ UNCHANGED <<vault, shell, inputs, dialog, call, keeping, remembered, forget_raced,
                   starts, tries>>

\* Mutant: any failure of the keyring counts as an entry that is not there.
map_delete_backend_result_AlwaysAbsent(result) ==
    IF result = "ok" THEN "deleted" ELSE "absent"

map_delete_backend_result(result) ==
    CASE result = "ok" -> "deleted"
      [] result = "no_entry" -> "absent"
      [] OTHER -> "error"

delete_saved_credentials ==
    /\ forget.state = "deleting" /\ forget.answer = None
    /\ \/ /\ vault' = None
          /\ forget' = [forget EXCEPT !.answer =
                map_delete_backend_result(IF vault = None THEN "no_entry" ELSE "ok")]
       \/ /\ forget' = [forget EXCEPT !.answer = map_delete_backend_result("unavailable")]
          /\ UNCHANGED vault
    /\ forget_raced' = (forget_raced \/ keeping # None)
    /\ UNCHANGED <<shell, inputs, dialog, call, keeping, remembered, starts, tries>>

FinishForget ==
    /\ forget.state = "deleting" /\ forget.answer # None
    /\ forget' = [forget EXCEPT !.state = "completed"]
    /\ UNCHANGED <<vault, shell, inputs, dialog, call, keeping, remembered, forget_raced,
                   starts, tries>>

---------------------------------------------------------------------------
SessionStep == \/ load_saved_credentials \/ discover_cloud_id
            \/ ensure_authenticated_user \/ open_store

SessionNext ==
    \/ Launch \/ Quit
    \/ open_connection_dialog \/ CancelDialog \/ ToggleRemember \/ connect
    \/ \E token \in Logins \cup {Empty, Malformed} : EnterToken(token)
    \/ \E named \in BOOLEAN : EnterSite(named)
    \/ SessionStep
    \/ save_credentials \/ begin_forget_saved_login \/ delete_saved_credentials
    \/ FinishForget

SessionSpec == SessionInit /\ [][SessionNext]_sessionVars

---------------------------------------------------------------------------
(* The keyring only ever holds a login that Jira accepted and that was      *)
(* entered in a form that asked to remember it, or what it held at first.   *)
OnlyRememberedLoginsAreSaved == vault = None \/ vault \in remembered

(* Once the settings say that the saved login is gone there is none for the *)
(* next start to find, unless it was forgotten while the keyring was still  *)
(* at saving it.                                                             *)
ForgottenUnlessRaced ==
    forget.state = "completed" /\ forget.answer \in {"deleted", "absent"} /\ ~forget_raced =>
        vault = None

(* The keyring holds what the user last asked it to hold.                  *)
KeyringIsAsAsked == OnlyRememberedLoginsAreSaved /\ ForgottenUnlessRaced

(* "Re-enter your scoped API token and try again.": pressing Connect sends  *)
(* what was entered, or the form says what is missing.                      *)
SubmitIsAnswered == [][connect => tries' # tries \/ guidance_shown']_sessionVars
=============================================================================
