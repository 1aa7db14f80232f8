------------------------------ MODULE FirstOrders ------------------------------
(***************************************************************************)
(* Orders of the first generation (app/pipeline.py, app/approvals.py,           *)
(* app/tools.py, app/ladder.py): a customer's /buy becomes an approval; a person's   *)
(* decision writes the order, its row in the mirror file and the agent's ladder, and   *)
(* the approval's own row last.  Each statement commits by itself; one lock of the       *)
(* process keeps two decisions apart, and the process may die between any two.            *)
(***************************************************************************)
EXTENDS Integers, FiniteSets, Sequences

CONSTANTS
  Buy,        \* messages that parse as an order
  DailyLimit, \* messages a tenant may send in a day
  MinTasks,   \* decisions before the ladder moves; its window
  MaxErr, DemoteErr, \* shares of rejections, in percent
  NoBuy,
  MaxRestarts \* bound

ASSUME FirstOrdersAssumption ==
  /\ {DailyLimit, MinTasks} \subseteq Nat \ {0} /\ 0 <= MaxErr /\ MaxErr < DemoteErr /\ NoBuy \notin Buy

VARIABLES
  remembered, \* idem: messages already taken
  arriving,   \* where the handling of a message stands
  today,      \* messages counted today
  asked,      \* the approval of each message
  ordered,    \* rows of orders
  mirror,     \* rows of the mirror file, by message
  ladder,     \* the agent's level and its last outcomes
  deciding,   \* the decision under way, within the lock
  packFits,   \* the tenant's pack still has the product and the branch
  restarts

orderVars == <<remembered, arriving, today, asked, ordered, mirror, ladder, deciding, packFits, restarts>>

NoDecision == [buy |-> NoBuy, pc |-> "idle"]
Levels == <<"human_led", "human_assisted", "autonomous">>

FirstOrdersInit ==
  /\ remembered = {} /\ arriving = [m \in Buy |-> "none"] /\ today = 0
  /\ asked = [m \in Buy |-> "none"] /\ ordered = {} /\ mirror = [m \in Buy |-> 0]
  /\ ladder = [level |-> 1, outcomes |-> << >>] /\ deciding = NoDecision
  /\ packFits = TRUE /\ restarts = 0

-----------------------------------------------------------------------------
\* _legacy_handle_text_message: the key is remembered before the quota is asked, and the quota
\* before the approval is written; a repeated message is answered "duplicate" whatever became of it.
RememberBuy(m) ==
  /\ arriving[m] = "none" /\ m \notin remembered /\ packFits
  /\ remembered' = remembered \union {m} /\ arriving' = [arriving EXCEPT ![m] = "quota"]
  /\ UNCHANGED <<today, asked, ordered, mirror, ladder, deciding, packFits, restarts>>
CheckQuota(m) ==
  /\ arriving[m] = "quota"
  /\ today' = IF today < DailyLimit THEN today + 1 ELSE today
  /\ arriving' = [arriving EXCEPT ![m] = IF today < DailyLimit THEN "submit" ELSE "none"]
  /\ UNCHANGED <<remembered, asked, ordered, mirror, ladder, deciding, packFits, restarts>>
Submit(m) ==
  /\ arriving[m] = "submit" /\ arriving' = [arriving EXCEPT ![m] = "none"]
  /\ asked' = [asked EXCEPT ![m] = "pending"]
  /\ UNCHANGED <<remembered, today, ordered, mirror, ladder, deciding, packFits, restarts>>

-----------------------------------------------------------------------------
\* decide: a pending approval whose order the pack still allows; a rejection writes no order.
BeginDecision(m, decision) ==
  /\ deciding.pc = "idle" /\ asked[m] = "pending" /\ packFits
  /\ deciding' = [buy |-> m, decision |-> decision, pc |-> IF decision = "approved" THEN "order" ELSE "ladder"]
  /\ UNCHANGED <<remembered, arriving, today, asked, ordered, mirror, ladder, packFits, restarts>>

\* CsvOrderStore.append: the row of the approval's id unless it is there, then the file's.
StoreOrder ==
  /\ deciding.pc = "order" /\ ordered' = ordered \union {deciding.buy}
  /\ deciding' = [deciding EXCEPT !.pc = "mirror"]
  /\ UNCHANGED <<remembered, arriving, today, asked, mirror, ladder, packFits, restarts>>
\* Mutant of MirrorRows: appended without a look at what the file holds.
MirrorRowsBlindly(m) == mirror[m] + 1
MirrorRows(m) == IF mirror[m] = 0 THEN 1 ELSE mirror[m]
MirrorOrder ==
  /\ deciding.pc = "mirror" /\ mirror' = [mirror EXCEPT ![deciding.buy] = MirrorRows(deciding.buy)]
  /\ deciding' = [deciding EXCEPT !.pc = "ladder"]
  /\ UNCHANGED <<remembered, arriving, today, asked, ordered, ladder, packFits, restarts>>

\* LadderStore.record: the last outcomes; enough of them move the level, which starts afresh.  A
\* level reached this way is never the autonomous one.
Moved(level, outcomes) ==
  LET n == Len(outcomes)
      errs == Cardinality({i \in DOMAIN outcomes : ~outcomes[i]})
  IN IF n < MinTasks THEN level
     ELSE IF 100 * errs <= MaxErr * n /\ level + 1 < Len(Levels) THEN level + 1
     ELSE IF 100 * errs > DemoteErr * n /\ level > 1 THEN level - 1 ELSE level
RecordOutcome ==
  LET all == Append(ladder.outcomes, deciding.decision = "approved")
      kept == IF Len(all) > MinTasks THEN Tail(all) ELSE all
      next == Moved(ladder.level, kept)
  IN /\ deciding.pc = "ladder"
     /\ ladder' = [level |-> next, outcomes |-> IF next = ladder.level THEN kept ELSE << >>]
     /\ deciding' = [deciding EXCEPT !.pc = "close"]
     /\ UNCHANGED <<remembered, arriving, today, asked, ordered, mirror, packFits, restarts>>
CloseApproval ==
  /\ deciding.pc = "close" /\ asked' = [asked EXCEPT ![deciding.buy] = deciding.decision]
  /\ deciding' = NoDecision
  /\ UNCHANGED <<remembered, arriving, today, ordered, mirror, ladder, packFits, restarts>>

-----------------------------------------------------------------------------
\* set_level, by a person; another pack; another day; a death of the process.
SetLevel(level) ==
  /\ ladder' = [level |-> level, outcomes |-> << >>]
  /\ UNCHANGED <<remembered, arriving, today, asked, ordered, mirror, deciding, packFits, restarts>>
PackChanges ==
  packFits' = ~packFits /\ UNCHANGED <<remembered, arriving, today, asked, ordered, mirror, ladder, deciding, restarts>>
DayTurns ==
  today' = 0 /\ UNCHANGED <<remembered, arriving, asked, ordered, mirror, ladder, deciding, packFits, restarts>>
ProcessDies ==
  /\ restarts < MaxRestarts /\ restarts' = restarts + 1
  /\ deciding' = NoDecision /\ arriving' = [m \in Buy |-> "none"]
  /\ UNCHANGED <<remembered, today, asked, ordered, mirror, ladder, packFits>>

FirstOrdersNext ==
  \/ \E m \in Buy : RememberBuy(m) \/ CheckQuota(m) \/ Submit(m)
  \/ \E m \in Buy, decision \in {"approved", "rejected"} : BeginDecision(m, decision)
  \/ StoreOrder \/ MirrorOrder \/ RecordOutcome \/ CloseApproval
  \/ \E level \in DOMAIN Levels : SetLevel(level)
  \/ PackChanges \/ DayTurns \/ ProcessDies

FirstOrdersSpec == FirstOrdersInit /\ [][FirstOrdersNext]_orderVars
-----------------------------------------------------------------------------
(* An approved order is in the table and once in the file, however often its decision was cut   *)
(* short and taken again, and no message has two rows (tools.py: append looks for the id in both). *)
ApprovedIsOrdered ==
  \A m \in Buy : mirror[m] <= 1 /\ (mirror[m] = 1 => m \in ordered)
                 /\ (asked[m] = "approved" => m \in ordered /\ mirror[m] = 1)
=============================================================================
