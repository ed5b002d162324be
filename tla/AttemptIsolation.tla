-------------------------- MODULE AttemptIsolation --------------------------
(***************************************************************************)
(* What a sandbox-backed runner promises of isolation, whatever its pool,  *)
(* its limits and its failures: an attempt enters one sandbox at most, a   *)
(* sandbox is entered once at most and never after it was given up, and    *)
(* an attempt that is told "ok" did enter one.                             *)
(***************************************************************************)
CONSTANTS Attempt, Sandbox

VARIABLES
  user,     \* the attempts that entered each sandbox
  retired,  \* the sandboxes nobody may enter any more
  answer    \* what each attempt was told, "none" before that

Init ==
  /\ user = [s \in Sandbox |-> {}]
  /\ retired = {}
  /\ answer = [a \in Attempt |-> "none"]

Enter(a, s) ==
  /\ s \notin retired
  /\ user[s] = {}
  /\ \A t \in Sandbox : a \notin user[t]
  /\ user' = [user EXCEPT ![s] = {a}]

Retire == retired' \in SUBSET Sandbox /\ retired \subseteq retired'

Answer(a, res) ==
  /\ answer[a] = "none"
  /\ res = "ok" => \E s \in Sandbox : user[s] = {a}
  /\ answer' = [answer EXCEPT ![a] = res]

\* A write that fails half way both enters the sandbox and answers, and a
\* create that fails both gives a sandbox up and answers.
Next ==
  /\ UNCHANGED user \/ \E a \in Attempt, s \in Sandbox : Enter(a, s)
  /\ Retire
  /\ UNCHANGED answer \/ \E a \in Attempt, res \in {"ok", "busy", "error"} : Answer(a, res)

vars == <<user, retired, answer>>

Spec == Init /\ [][Next]_vars

=============================================================================
