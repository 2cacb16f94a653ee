-------------------------- MODULE InOrderSettlement --------------------------
(***************************************************************************)
(* What the Monitor promises about the reader's exchange files: sequence   *)
(* numbers are settled strictly in order, each exactly once, and a         *)
(* settlement is never revised.  A file is applied or rejected by itself;  *)
(* a missing interval is settled as a whole.                               *)
(***************************************************************************)
EXTENDS Naturals, Sequences

VARIABLE outcome    \* outcome[n]: how sequence number n was settled

Outcomes == {"applied", "rejected", "gap"}

Init == outcome = <<>>

SettleFile ==
    \E o \in {"applied", "rejected"} : outcome' = Append(outcome, o)

SettleGap ==
    /\ outcome' \in Seq(Outcomes)
    /\ Len(outcome') > Len(outcome)
    /\ \A n \in DOMAIN outcome' :
          outcome'[n] = IF n \in DOMAIN outcome THEN outcome[n] ELSE "gap"

Next == SettleFile \/ SettleGap

Spec == Init /\ [][Next]_outcome
=============================================================================
