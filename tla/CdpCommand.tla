----------------------------- MODULE CdpCommand -----------------------------
(***************************************************************************)
(* One command of the CDP tool (buyer/tools/cdp_tool.py): run_command with *)
(* its two records in the log of browser actions, the connection that is   *)
(* retried within the recovery window (connect_page_with_retry), the page  *)
(* that ensure_page picks, commands that read, which are retried as a      *)
(* whole, and commands that act on the page, which are not.  The endpoints *)
(* that buyer/app/cdp_endpoint.py tries for one connection are left out.   *)
(***************************************************************************)
EXTENDS Integers, Sequences

CONSTANTS
  MaxTries,     \* bound: connections that are tried
  MaxContexts   \* bound: contexts of the browser, and pages of a context

Reading == {"text"}     \* also title, url, exists, attr, links, snapshot, wait-url, ...
Acting == {"click"}     \* also goto, fill, press, wait, screenshot, html
Priorities == {0, 10, 20}                 \* blank, about: and others, http(s)

VARIABLES
  cmd,         \* the command
  cdpPc,
  pages,       \* contexts of the browser, each with the priorities of its pages
  picked,      \* the page: context and index when it was picked, <<0, 0>> before
  moved,       \* observed: the pages have changed since then
  tries, late, \* connections tried; the recovery window is over
  open,        \* connections that were not closed yet (closing is best effort)
  acted,       \* observed: times the page was acted on
  done,        \* observed: what was asked for is done
  log, code    \* records of the command, the exit code it is about to give (-1 before)

cdpVars == <<cmd, cdpPc, pages, picked, moved, tries, late, open, acted, done, log, code>>

BoundedSeq(S, n) == UNION {[1..k -> S] : k \in 0..n}

Init ==
  /\ cmd \in Reading \cup Acting /\ cdpPc = "start"
  /\ pages \in BoundedSeq(BoundedSeq(Priorities, MaxContexts), MaxContexts)
  /\ picked = <<0, 0>> /\ moved = FALSE /\ tries = 0 /\ late = FALSE /\ open = 0
  /\ acted = 0 /\ done = FALSE /\ log = <<>> /\ code = -1

(* _append_action_log: without a path of the log, or if it cannot be       *)
(* written, the record is dropped in silence.  The records of ensure_page, *)
(* which only name the page, are left out.                                 *)
Record(how) == log' \in {log, Append(log, how)}

(* The record that ends the command; then playwright is stopped.           *)
Finish(how, n) == cdpPc' = "stop" /\ Record(how) /\ code' = n

(* run_command: the first record, the checks of its arguments, and the URL *)
(* policy of goto.                                                         *)
Start ==
  /\ cdpPc = "start" /\ cdpPc' = "checks" /\ Record("started")
  /\ UNCHANGED <<cmd, pages, picked, moved, tries, late, open, acted, done, code>>

(* The record says "finished" here too, with ok = False in its result.     *)
Refuse ==
  /\ cdpPc = "checks" /\ cdpPc' = "over" /\ Record("refused") /\ code' = 1
  /\ UNCHANGED <<cmd, pages, picked, moved, tries, late, open, acted, done>>

StartPlaywright ==
  /\ cdpPc = "checks" /\ cdpPc' = "connect"
  /\ UNCHANGED <<cmd, pages, picked, moved, tries, late, open, acted, done, log, code>>

(* async_playwright().start() is not in the try: only main sees it raise.  *)
StartFails ==
  /\ cdpPc = "checks" /\ cdpPc' = "over" /\ code' = 1
  /\ UNCHANGED <<cmd, pages, picked, moved, tries, late, open, acted, done, log>>

(* playwright.stop(), after the record of the command is written, may      *)
(* raise, and so may main's print of the result: the exit code is 1 then.  *)
Stop ==
  /\ cdpPc = "stop" /\ cdpPc' = "over" /\ code' \in {code, 1}
  /\ UNCHANGED <<cmd, pages, picked, moved, tries, late, open, acted, done, log>>

Tick ==
  /\ cdpPc \in {"connect", "command"} /\ ~late /\ late' = TRUE
  /\ UNCHANGED <<cmd, cdpPc, pages, picked, moved, tries, open, acted, done, log, code>>

(* ensure_page: the newest of the pages with the highest priority; without *)
(* a page that is not blank, the last page of the last context, or a new   *)
(* one.                                                                    *)
Places == {at \in (1..MaxContexts) \X (1..MaxContexts) :
             at[1] \in DOMAIN pages /\ at[2] \in DOMAIN pages[at[1]]}
Priority(at) == pages[at[1]][at[2]]

Best ==
  {a \in Places : \A b \in Places :
     \/ Priority(a) > Priority(b)
     \/ Priority(a) = Priority(b) /\ (a[1] > b[1] \/ (a[1] = b[1] /\ a[2] >= b[2]))}

EnsurePage ==
  IF \E at \in Places : Priority(at) > 0
  THEN picked' \in Best /\ UNCHANGED pages
  ELSE LET n == Len(pages)
           last == IF n = 0 THEN <<>> ELSE pages[n]
       IN IF last # <<>> THEN picked' = <<n, Len(last)>> /\ UNCHANGED pages
          ELSE /\ pages' = IF n = 0 THEN <<<<0>>>> ELSE [pages EXCEPT ![n] = <<0>>]
               /\ picked' = <<IF n = 0 THEN 1 ELSE n, 1>>

(* connect_page_with_retry; what was opened is closed before the next try, *)
(* but a page that ensure_page has opened stays.                           *)
Connect ==
  /\ cdpPc = "connect" /\ tries < MaxTries /\ tries' = tries + 1
  /\ cdpPc' = "command" /\ open' = open + 1 /\ EnsurePage /\ moved' = FALSE
  /\ UNCHANGED <<cmd, late, acted, done, log, code>>

ConnectFails ==
  /\ cdpPc = "connect" /\ tries < MaxTries /\ tries' = tries + 1
  /\ EnsurePage \/ UNCHANGED <<pages, picked>>
  /\ IF late THEN Finish("failed", 1) ELSE UNCHANGED <<cdpPc, log, code>>
  /\ UNCHANGED <<cmd, moved, late, open, acted, done>>

(* A command that acts: what is done to the page is done, also if what     *)
(* follows (the wait after a click, the title after goto) raises.          *)
Act ==
  /\ cdpPc = "command" /\ cmd \in Acting /\ acted' = acted + 1
  /\ \/ Finish("finished", 0) /\ done' = TRUE
     \/ Finish("failed", 1) /\ UNCHANGED done
  /\ open' = open - 1
  /\ UNCHANGED <<cmd, pages, picked, moved, tries, late>>

(* Mutant: a transient error of any command is retried. *)
ActFailsRetried ==
  /\ cdpPc = "command" /\ cmd \in Acting
  /\ acted' \in {acted, acted + 1} /\ cdpPc' = "connect"
  /\ open' = open - 1
  /\ UNCHANGED <<cmd, pages, picked, moved, tries, late, done, log, code>>

(* It raises before anything was done: transient or not, no second try.    *)
ActFails ==
  /\ cdpPc = "command" /\ cmd \in Acting /\ Finish("failed", 1)
  /\ open' = open - 1
  /\ UNCHANGED <<cmd, pages, picked, moved, tries, late, acted, done>>

(* A command that reads: its result, or an error of its own; a transient   *)
(* one connects anew until the window is over.                             *)
Read ==
  /\ cdpPc = "command" /\ cmd \in Reading /\ open' = open - 1
  /\ \/ Finish("finished", 0) /\ done' = TRUE
     \/ Finish("failed", 1) /\ UNCHANGED done
  /\ UNCHANGED <<cmd, pages, picked, moved, tries, late, acted>>

ReadTransient ==
  /\ cdpPc = "command" /\ cmd \in Reading /\ open' = open - 1
  /\ IF late THEN Finish("failed", 1) ELSE cdpPc' = "connect" /\ UNCHANGED <<log, code>>
  /\ UNCHANGED <<cmd, pages, picked, moved, tries, late, acted, done>>

(* The sites open, leave and close pages at any time: between two tries,   *)
(* and after a page was picked, which then may be another one or gone.     *)
PagesChange ==
  /\ cdpPc \in {"connect", "command"} /\ tries > 0
  /\ pages' \in BoundedSeq(BoundedSeq(Priorities, 1), MaxContexts) /\ moved' = TRUE
  /\ UNCHANGED <<cmd, cdpPc, picked, tries, late, open, acted, done, log, code>>

Next ==
  \/ Start \/ Refuse \/ StartPlaywright \/ StartFails \/ Tick \/ Connect \/ ConnectFails
  \/ Act \/ ActFails \/ Read \/ ReadTransient \/ PagesChange \/ Stop

-----------------------------------------------------------------------------
(* Properties *)

Recorded(how) == \E i \in DOMAIN log : log[i] = how

(* A command acts on the page at most once, however often it connects and  *)
(* however the pages change, and one that reads never does; a blank page   *)
(* is used only if the shop was open in none when the last connection      *)
(* picked it.  The records may be missing and the exit code may be 1       *)
(* although all was done, but neither ever claims too much: exit code 0    *)
(* and a "finished" record mean that it was done, "failed" and "refused"   *)
(* that no result was given, "refused" also that nothing was touched; the  *)
(* command ends once, with no connection left open.                        *)
ActsOnce ==
  /\ acted <= (IF cmd \in Acting THEN 1 ELSE 0)
  /\ cdpPc = "command" /\ ~moved =>
       picked \in Places /\ (Priority(picked) = 0 => \A at \in Places : Priority(at) = 0)
  /\ code = 0 \/ Recorded("finished") => done
  /\ Recorded("failed") \/ Recorded("refused") => ~done /\ code = 1
  /\ Recorded("refused") => acted = 0 /\ tries = 0
  /\ cdpPc = "over" => Len(log) <= 2 /\ open = 0 /\ code \in {0, 1}
=============================================================================
