------------------------------- MODULE Telephony -------------------------------
(***************************************************************************)
(* Call records and the consent gate (platform_runtime/telephony.py), reported  *)
(* from registers.  A call row is [number, direction, day, seconds, outcome]; a   *)
(* consent row [number, status, purpose, expiry, recording].  Number 0 is none a    *)
(* phone has, direction and status "" are words nobody declared; outcome "link" is    *)
(* a recording's locator, which is withheld.                                           *)
(***************************************************************************)
EXTENDS Registers

IsDay(cell) == IsNumber(cell)

\* _window: no bound is every row; with one, a row without a readable day is outside.
InWindow(day, since, until) ==
  \/ since = Blank /\ until = Blank
  \/ /\ IsDay(day)
     /\ since = Blank \/ Number(day) >= Number(since)
     /\ until = Blank \/ Number(day) <= Number(until)

\* _consent_index: what each readable record says of its number and purpose, and how many are not.
ConsentIndex(records, today) ==
  LET Legible(r) == /\ r.number # 0 /\ r.status # "" /\ r.purpose # ""
                    /\ ~IsJunk(r.expiry)
      Expired(r) == IsDay(r.expiry) /\ today > Number(r.expiry)
      legible == {i \in DOMAIN records : Legible(records[i])}
      Grants(r) == r.status = "granted" /\ ~Expired(r)
      Keys(S) == {<<records[i].number, records[i].purpose>> : i \in S}
      grants == {i \in legible : Grants(records[i])}
      LastGrant(key) == CHOOSE i \in grants :
        /\ <<records[i].number, records[i].purpose>> = key
        /\ \A j \in grants : <<records[j].number, records[j].purpose>> = key => j <= i
  IN [granted |-> Keys(grants), withdrawn |-> Keys(legible \ grants),
      recording |-> {key \in Keys(grants) : records[LastGrant(key)].recording},
      unreadable |-> Len(records) - Cardinality(legible)]

\* consent: a usable number, on the allowlist when there is one, with a record that grants;
\* a granting record is looked for first, whatever another row of the number says.
Reasons(number, purpose, index, allowlist) ==
  (IF number = 0 THEN {"unusable"} ELSE {})
  \union (IF allowlist # {} /\ number # 0 /\ number \notin allowlist THEN {"not listed"} ELSE {})
  \union (IF number = 0 \/ <<number, purpose>> \in index.granted THEN {}
          ELSE IF <<number, purpose>> \in index.withdrawn THEN {"withdrawn"} ELSE {"no record"})
Consented(number, purpose, index, allowlist) == Reasons(number, purpose, index, allowlist) = {}
RecordingAllowed(number, purpose, index) == number # 0 /\ <<number, purpose>> \in index.recording

\* The rows a scan counts; a limit stops the evaluation of a row too, not only its listing.
UsableCall(row) == row.number # 0 /\ row.direction # ""
Matched(rows, since, until) ==
  SelectSeq(rows, LAMBDA row: UsableCall(row) /\ InWindow(row.day, since, until))

\* _scan: an outbound call nobody consented to is listed, without a path, and marked so.
CallEvents(rows, index, entry, since, until, limit) ==
  LET shown == ShownRows(Matched(rows, since, until), limit)
      Refused(row) == row.direction = "outbound" /\ ~Consented(row.number, entry.purpose, index, entry.allowlist)
  IN [events |-> [i \in DOMAIN shown |->
        [number |-> shown[i].number, direction |-> shown[i].direction,
         outcome |-> IF shown[i].outcome = "link" THEN "" ELSE shown[i].outcome,
         seconds |-> shown[i].seconds, consent |-> ~Refused(shown[i])]],
      matched |-> Len(Matched(rows, since, until)),
      refused |-> Count(shown, Refused),
      withheld |-> Count(shown, LAMBDA row: row.outcome = "link"),
      undated |-> Count(shown, LAMBDA row: ~Refused(row) /\ ~IsDay(row.day)),
      skipped |-> Count(rows, LAMBDA row: ~UsableCall(row)),
      truncated |-> Truncated(Matched(rows, since, until), limit)]

\* summary, over the events of one scan.
CallSummary(scan) ==
  LET Timed(event) == IsNumber(event.seconds) /\ Number(event.seconds) >= 0
      timed == SelectSeq(scan.events, Timed)
  IN [calls |-> Len(scan.events), timed |-> Len(timed),
      seconds |-> Total(timed, LAMBDA event: Number(event.seconds)),
      answered |-> Count(scan.events, LAMBDA event: event.outcome = "answered"),
      refused |-> scan.refused]

\* retention: a report, of three outcomes; a row without a readable day has no age.
Retention(rows, window, today) ==
  LET Aged(row) == row.number # 0 /\ IsDay(row.day)
      Past(row) == Aged(row) /\ today - Number(row.day) >= window
  IN [past |-> Count(rows, Past), inWindow |-> Count(rows, LAMBDA row: Aged(row) /\ ~Past(row)),
      unaged |-> Count(rows, LAMBDA row: row.number # 0 /\ ~Aged(row)),
      skipped |-> Count(rows, LAMBDA row: row.number = 0), deleted |-> 0]

\* queue: the outbound rows, gated one by one; capacity only counts what is above it.
Queue(rows, index, entry, since, until, limit) ==
  LET outbound == SelectSeq(Matched(rows, since, until), LAMBDA row: row.direction = "outbound")
      shown == ShownRows(outbound, limit)
      items == [i \in DOMAIN shown |->
        [number |-> shown[i].number,
         consented |-> Consented(shown[i].number, entry.purpose, index, entry.allowlist),
         recording |-> RecordingAllowed(shown[i].number, entry.purpose, index)]]
      callable == Count(items, LAMBDA item: item.consented)
  IN [items |-> items, matched |-> Len(outbound), callable |-> callable,
      blocked |-> Len(items) - callable,
      overCapacity |-> IF callable > entry.capacity THEN callable - entry.capacity ELSE 0,
      skipped |-> Count(rows, LAMBDA row: ~UsableCall(row)),
      truncated |-> Truncated(outbound, limit)]
=============================================================================
