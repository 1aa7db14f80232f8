------------------------------- MODULE Registers -------------------------------
(***************************************************************************)
(* Rows of an operator's register (platform_runtime/sheets.py), as the report   *)
(* tools read them.  A cell is a sequence: empty when blank, one number when it    *)
(* reads as a number, longer when it holds text that does not.                      *)
(***************************************************************************)
EXTENDS Integers, FiniteSets, SequencesExt

Blank == << >>
Junk == <<0, 0>>
IsNumber(cell) == Len(cell) = 1
IsJunk(cell) == Len(cell) > 1
Number(cell) == cell[1]

\* _read and shape_rows: the rows up to the smallest limit; longer registers are truncated.
ShownRows(register, limit) == SubSeq(register, 1, IF Len(register) <= limit THEN Len(register) ELSE limit)
Truncated(register, limit) == Len(register) > limit

\* _read: the tool, the declared range and the connection are the agent's, or it is refused.
MayRead(policy, tool, register) ==
  /\ tool \in policy.tools /\ register.declared
  /\ register.connection \in policy.connections

Count(rows, Is(_)) == Len(SelectSeq(rows, Is))
Total(rows, Amount(_)) == FoldSeq(LAMBDA row, sum: sum + Amount(row), 0, rows)

\* The list a report carries: the first of the set, by the order given.
Top(S, Before(_, _), limit) == ShownRows(SetToSortSeq(S, Before), limit)
=============================================================================
