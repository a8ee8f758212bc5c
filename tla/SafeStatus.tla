----------------------------- MODULE SafeStatus -----------------------------
(***************************************************************************)
(* The configuration of one Safe and what the decoded calls of the Safe    *)
(* do to it (history/indexers/tx_processor.py).  The calls are numbered in *)
(* the order of the processing queue: setup first, then block, index of    *)
(* the transaction and id of the row.                                      *)
(*                                                                         *)
(* The owners stand for the enabled modules too, which are added and       *)
(* removed alike; the threshold stands for the fields that a call just     *)
(* overwrites (master copy, fallback handler, guards).                     *)
(***************************************************************************)
EXTENDS Integers, Sequences, SequencesExt

CONSTANTS
  NumRows,   \* decoded calls of the Safe
  Call,      \* function_name and arguments of a row
  Timestamp, \* timestamp of the block of a row
  NoStatus   \* the Safe is not set up, or no row

Row == 1 .. NumRows

FunctionNames == {"setup", "addOwner", "removeOwner", "swapOwner",
               "changeThreshold", "execTransaction", "approveHash"}

ASSUME RowType ==
  /\ NumRows \in Nat \ {0}
  /\ \A r \in Row :
       /\ Call[r].fn \in FunctionNames
       /\ Call[r].threshold \in Nat \* 0: the event does not have it
       /\ Call[r].nonce \in Nat
       /\ Call[r].owners \in Seq(Range(Call[r].owners))
       /\ Timestamp[r] \in Nat
(* setup is the oldest call of a Safe, and the queue goes by block.        *)
ASSUME QueueFollowsTime ==
  \A r, s \in Row : r < s => Timestamp[r] <= Timestamp[s]

Owners == {Call[r].owner : r \in Row} \cup {Call[r].newOwner : r \in Row}
            \cup UNION {Range(Call[r].owners) : r \in Row}

(* The fields of a status that the calls determine.                        *)
Configs == [owners : Seq(Owners), threshold : Nat, nonce : Nat]

(* A row of history_safestatus: the configuration after the call row.      *)
StatusRows == [owners : Seq(Owners), threshold : Nat, nonce : Nat, row : Row]

ASSUME NoStatusIsNone == NoStatus \notin Configs \cup StatusRows

(* swap_owner: the owner must be there.                                    *)
OwnerCannotBeRemoved(c, s) ==
  c.fn \in {"removeOwner", "swapOwner"} /\ ~Contains(s.owners, c.owner)

ThresholdOr(c, s) == IF c.threshold # 0 THEN c.threshold ELSE s.threshold

(* __process_decoded_transaction: the status after a call.                 *)
Modified(c, s) ==
  CASE c.fn = "setup" ->
         [owners |-> c.owners, threshold |-> c.threshold, nonce |-> 0]
    [] c.fn = "addOwner" ->
         [s EXCEPT !.owners = <<c.owner>> \o @, !.threshold = ThresholdOr(c, s)]
    [] c.fn = "removeOwner" ->
         [s EXCEPT !.owners = RemoveFirst(@, c.owner), !.threshold = ThresholdOr(c, s)]
    [] c.fn = "swapOwner" ->
         [s EXCEPT !.owners = ReplaceAll(@, c.owner, c.newOwner)]
    [] c.fn = "changeThreshold" -> [s EXCEPT !.threshold = c.threshold]
    [] c.fn = "execTransaction" -> [s EXCEPT !.nonce = c.nonce + 1]
    [] c.fn = "approveHash" -> s

(* The status after a call that may do nothing: one before setup, or one   *)
(* that is impossible.                                                     *)
Apply(c, s) ==
  CASE c.fn = "setup" -> Modified(c, s)
    [] c.fn # "setup" /\ s = NoStatus -> s
    [] OTHER -> IF OwnerCannotBeRemoved(c, s) THEN s ELSE Modified(c, s)

(* What a set of calls makes of a Safe, applied in order.                  *)
Replay(rows) ==
  LET after[n \in 0 .. NumRows] ==
        IF n = 0 THEN NoStatus
        ELSE IF n \in rows THEN Apply(Call[n], after[n - 1]) ELSE after[n - 1]
  IN after[NumRows]
=============================================================================
