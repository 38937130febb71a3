------------------------------ MODULE AuthFlow ------------------------------
(***************************************************************************)
(* The authorisation of a session before its first agent step:             *)
(* _run_sberid_auth_flow and _resolve_session_auth (buyer/app/service.py), *)
(* the client of the external cookies API (external_auth.py) with its      *)
(* retries, and SberIdScriptRunner (auth_scripts.py), which hands the      *)
(* cookies to a script of the shop in a file of its own.                   *)
(***************************************************************************)
EXTENDS Integers

CONSTANT Retries   \* retries of the external client

VARIABLES
  authPc,     \* where the flow is
  given,      \* the request carried cookies: "none", "sberid", "invalid", "other"
  shop,       \* what is known of the shop: "foreign", "listed", "scripted"
  external,   \* requests made to the cookies API; -1 when there is no client
  summary,    \* what the flow returns
  cookies,    \* the temporary file with the storage state
  hint,       \* the agent's memory asks for a heuristic login
  script,     \* observed: how the script ended
  spoilt      \* observed: the file could not be written in full, or a kill

authVars == <<authPc, given, shop, external, summary, cookies, hint, script, spoilt>>

Init ==
  /\ authPc = "resolve" /\ given \in {"none", "sberid", "invalid", "other"}
  /\ shop \in {"foreign", "listed", "scripted"} /\ external \in {-1, 0}
  /\ summary = [mode |-> "guest", path |-> "guest", reason |-> "none", attempts |-> 0,
                prepared |-> FALSE]
  /\ cookies = FALSE /\ hint = FALSE /\ script = "none" /\ spoilt = FALSE

Guest(reason) ==
  /\ authPc' = "over" /\ summary' = [summary EXCEPT !.mode = "guest", !.path = "guest", !.reason = reason]

(* _resolve_session_auth, with cookies in the request, without a client or *)
(* with one that has no URL.                                               *)
Inline ==
  /\ authPc = "resolve" /\ given # "none" /\ authPc' = "check"
  /\ UNCHANGED <<given, shop, external, summary, cookies, hint, script, spoilt>>

NoClient ==
  /\ authPc = "resolve" /\ given = "none"
  /\ \/ external = -1 /\ Guest("auth_not_provided")
     \/ external = 0 /\ Guest("auth_external_unavailable")
  /\ UNCHANGED <<given, shop, external, cookies, hint, script, spoilt>>

(* One turn of fetch_storage_state; cookies end it, as does the last turn. *)
Answers == {"auth_external_timeout", "auth_external_unavailable",
            "auth_external_invalid_payload", "auth_external_empty_payload"}
Fetch ==
  /\ authPc = "resolve" /\ given = "none" /\ external \in 0..Retries
  /\ external' = external + 1
  /\ \/ /\ authPc' = "store"
        /\ summary' = [summary EXCEPT !.reason = "auth_external_loaded"] /\ UNCHANGED given
     \/ \E a \in Answers : IF external = Retries THEN Guest(a) /\ UNCHANGED given
                           ELSE UNCHANGED <<authPc, summary, given>>
  /\ UNCHANGED <<shop, cookies, hint, script, spoilt>>

(* store.set_auth *)
StoreAuth ==
  /\ authPc = "store" /\ authPc' = "check" /\ given' = "sberid"
  /\ UNCHANGED <<shop, external, summary, cookies, hint, script, spoilt>>

(* Provider, allowlist and shape of the storage state. *)
CheckAuth ==
  /\ authPc = "check"
  /\ CASE given = "other" -> Guest("auth_provider_not_supported")
       [] given # "other" /\ shop = "foreign" -> Guest("auth_domain_not_in_allowlist")
       [] given = "invalid" /\ shop # "foreign" ->
            /\ authPc' = "over"
            /\ summary' = [summary EXCEPT !.reason = "auth_inline_invalid_payload", !.attempts = 1]
       [] OTHER -> /\ authPc' = "script"
                   /\ summary' = [summary EXCEPT !.mode = "sberid", !.attempts = 1]
  /\ UNCHANGED <<given, shop, external, cookies, hint, script, spoilt>>

(* Mutant: the reason that the script gives is not looked at.              *)
EndsByStatus(how, reason, prepared) ==
  /\ script' = how
  /\ IF how = "completed"
     THEN /\ authPc' = "over"
          /\ summary' = [summary EXCEPT !.path = "script", !.reason = reason, !.prepared = prepared]
     ELSE /\ authPc' = "hint"
          /\ summary' = [summary EXCEPT !.path = "heuristic", !.reason = reason]

(* The result of SberIdScriptRunner.run and what the flow makes of it.     *)
Ends(how, reason, prepared) ==
  /\ script' = how
  /\ IF how = "completed" /\ reason = "auth_ok"
     THEN /\ authPc' = "over"
          /\ summary' = [summary EXCEPT !.path = "script", !.reason = reason, !.prepared = prepared]
     ELSE /\ authPc' = "hint"
          /\ summary' = [summary EXCEPT !.path = "heuristic", !.reason = reason]

(* No script of the shop, one that is not published, or no runtime for it. *)
NoScript ==
  /\ authPc = "script"
  /\ \E reason \in {"auth_failed_invalid_session", "auth_refresh_requested"} :
       Ends("failed", reason, FALSE)
  /\ UNCHANGED <<given, shop, external, cookies, hint, spoilt>>

(* _write_storage_state_tempfile *)
WriteCookies ==
  /\ authPc = "script" /\ shop = "scripted"
  /\ authPc' = "endpoint" /\ cookies' = TRUE
  /\ UNCHANGED <<given, shop, external, summary, hint, script, spoilt>>

(* Writing raises after the file was made: the caller has no name for it.  *)
WriteFails ==
  /\ authPc = "script" /\ shop = "scripted"
  /\ authPc' = "raised" /\ cookies' = TRUE /\ spoilt' = TRUE
  /\ UNCHANGED <<given, shop, external, summary, hint, script>>

StartScript ==
  /\ authPc = "endpoint" /\ authPc' = "process"
  /\ UNCHANGED <<given, shop, external, summary, cookies, hint, script, spoilt>>

(* Mutant: the file is left when the script is never started. *)
NotStartedKeepsFile ==
  /\ authPc = "endpoint" /\ Ends("failed", "auth_failed_invalid_session", FALSE)
  /\ UNCHANGED <<given, shop, external, cookies, hint, spoilt>>

(* The CDP endpoint is not resolved, or there is no binary. *)
NotStarted ==
  /\ authPc = "endpoint" /\ Ends("failed", "auth_failed_invalid_session", FALSE)
  /\ cookies' = FALSE
  /\ UNCHANGED <<given, shop, external, hint, spoilt>>

(* A time limit, an exit code, output that is no JSON object; or a result  *)
(* with a status and a reason of the script's own.                         *)
ScriptEnds ==
  /\ authPc = "process" /\ cookies' = FALSE
  /\ \/ Ends("failed", "auth_failed_invalid_session", FALSE)
     \/ \E how \in {"completed", "failed"}, prepared \in BOOLEAN,
           reason \in {"auth_ok", "auth_failed_payload", "auth_failed_redirect_loop",
                       "auth_refresh_requested"} : Ends(how, reason, prepared)
  /\ UNCHANGED <<given, shop, external, hint, spoilt>>

(* store.add_agent_memory *)
AddHint ==
  /\ authPc = "hint" /\ authPc' = "over" /\ hint' = TRUE
  /\ UNCHANGED <<given, shop, external, summary, cookies, script, spoilt>>

(* A repository call, a directory or a process raises: the finally clause  *)
(* of run has removed the file.                                            *)
Raise ==
  /\ authPc \in {"store", "script", "endpoint", "hint"} /\ authPc' = "raised"
  /\ cookies' = FALSE
  /\ UNCHANGED <<given, shop, external, summary, hint, script, spoilt>>

Kill ==
  /\ authPc \notin {"over", "raised"} /\ authPc' = "raised" /\ spoilt' = TRUE
  /\ UNCHANGED <<given, shop, external, summary, cookies, hint, script>>

Next ==
  \/ Inline \/ NoClient \/ Fetch \/ StoreAuth \/ CheckAuth \/ NoScript \/ WriteCookies \/ WriteFails
  \/ StartScript \/ NotStarted \/ ScriptEnds \/ AddHint \/ Raise \/ Kill

-----------------------------------------------------------------------------
(* Properties *)

(* The storage state is in a file only while a script is being started or  *)
(* runs, however the flow ends; a kill, or a write that fails half-way,    *)
(* are the exceptions.                                                     *)
CookiesAreRemoved == cookies => spoilt \/ authPc \in {"endpoint", "process"}

(* The summary tells what was done: "script" for a script that reported    *)
(* success, "heuristic" for one that did not, and then the agent was asked *)
(* for a login of its own; a guest has used neither cookies nor a script,  *)
(* and the cookies API is given up only after its last retry, or before    *)
(* the first request.                                                      *)
SummaryIsTrue ==
  authPc = "over" =>
    /\ (summary.path = "script") <=> (script = "completed" /\ summary.reason = "auth_ok")
    /\ (summary.path = "heuristic") <=> hint
    /\ (summary.path = "guest") <=> (script = "none")
    /\ summary.prepared => summary.path = "script"
    /\ (summary.mode = "sberid") <=> (summary.path # "guest")
    /\ summary.reason \in Answers =>
         given = "none" /\ external \in {Retries + 1, 0}
=============================================================================
