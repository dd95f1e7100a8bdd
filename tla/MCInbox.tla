------------------------------- MODULE MCInbox -------------------------------
(***************************************************************************)
(* Work that reaches the worker from outside or by the calendar, for TLC:  *)
(* bank transactions at the SePay inbox, notices of domain events, the     *)
(* security mail and the retention batches.  They share no state, so       *)
(* `part` chooses the one a behaviour is about, the others stay as they    *)
(* begin, and their state spaces add instead of multiply.                  *)
(*   races:     two jobs and a scanner on two transfers for one intent     *)
(*   notices:   an event stream with as many commits as each story needs   *)
(*              to reach its last states: five take an order from request  *)
(*              to reopened delivery, six a refund through a denial and a  *)
(*              second sending                                             *)
(*   mail:      one notification with two workers                          *)
(*   retention: two applications that name one account; the second one is  *)
(*              opened once the row of the plain dataset is deleted and no *)
(*              hold is active                                             *)
(***************************************************************************)
EXTENDS SePayInbox, Retention, SecurityEmail, Notices, TLC

CONSTANTS a, b, n, s1, j1, j2, w1, w2, a1, a2

VARIABLE part

mcVars == <<part, vars, noticeVars, mailVars, retentionVars>>

MCMaxCommits ==
  [s \in Stories |-> CASE s = "order" -> 5 [] s = "refund" -> 6 [] s = "other" -> 3 [] OTHER -> 4]
MCItems == {a, b}
MCIntents == {n}
MCSameIntent == [i \in Items |-> n]
MCScanners == {s1}
MCJobs == {j1, j2}
MCHoldable == [dataset : {"receiving_accounts", "application_content"}, subject : {User}]
Symm == Permutations(MCItems) \cup Permutations(MCJobs)

MCInit ==
  /\ part \in {"races", "notices", "mail", "retention"}
  /\ Init /\ NoticeInit /\ MailInit /\ SweepInit
  /\ part # "races" => automation = "on"
  /\ part # "notices" => story = "other"
  /\ part # "mail" => purpose = "notice" /\ ~verified

sweepBound ==
  /\ app'[a1] # "none" => rows'["provisional_accounts"] \in {"young", "gone"} /\ shielded' = {}
  /\ app'[a2] # "none" => rows'["provisional_accounts"] = "gone" /\ holds' = {}

MCNext ==
  \/ part = "races" /\ Next /\ UNCHANGED <<part, noticeVars, mailVars, retentionVars>>
  \/ part = "notices" /\ NoticeNext /\ UNCHANGED <<part, vars, mailVars, retentionVars>>
  \/ part = "mail" /\ MailNext /\ UNCHANGED <<part, vars, noticeVars, retentionVars>>
  \/ part = "retention" /\ SweepNext /\ sweepBound /\ UNCHANGED <<part, vars, noticeVars, mailVars>>

MCSpec == MCInit /\ [][MCNext]_mcVars
=============================================================================
