----------------------------- MODULE AlertStore -----------------------------
(***************************************************************************)
(* The alert table of the broker (event-broker/store.go) and the GET       *)
(* /api/alerts handler that queries it (event-broker/api.go).  A row is an *)
(* alert record; the columns no query looks at are left out.               *)
(***************************************************************************)
EXTENDS Integers, FiniteSets, Sequences, SequencesExt

CONSTANTS Row,           \* records [id, vessel, zone, ts], told apart by id
          Vessel, Zone,
          Absent,        \* a query parameter that is missing or not a number
          DefaultLimit,  \* 100
          MaxLimit       \* 1000

ASSUME LimitAssumption == /\ DefaultLimit \in Nat \ {0}
                          /\ MaxLimit \in Nat
                          /\ DefaultLimit <= MaxLimit

ASSUME RowAssumption ==
    /\ Row \subseteq [id : {r.id : r \in Row}, vessel : Vessel, zone : Zone, ts : Nat \ {0}]
    /\ \A q, r \in Row : q.id = r.id => q = r
    /\ Absent \notin Int

VARIABLE table           \* the rows stored

(* alert_id is the primary key: a second insert of it is an error.         *)
SaveAlert(r) == /\ \A q \in table : q.id # r.id
                /\ table' = table \cup {r}

(* Atoi and ParseInt: a parameter they refuse counts as not given.         *)
Number(x) == IF x = Absent THEN 0 ELSE x

(* The filters of a request; "" of a string parameter is Absent here.      *)
Filters(query) == [vessel |-> query.vessel, zone |-> query.zone,
                   from |-> Number(query.from), to |-> Number(query.to),
                   limit |-> Number(query.limit)]

Limit(n) == IF n <= 0 \/ n > MaxLimit THEN DefaultLimit ELSE n

MatchesBefore(r, f) == /\ f.vessel \in {Absent, r.vessel}
                       /\ f.zone \in {Absent, r.zone}
                       /\ f.from > 0 => r.ts >= f.from
                       /\ f.to > 0 => r.ts < f.to

(* The WHERE clause.                                                       *)
Matches(r, f) == /\ f.vessel \in {Absent, r.vessel}
                 /\ f.zone \in {Absent, r.zone}
                 /\ f.from > 0 => r.ts >= f.from
                 /\ f.to > 0 => r.ts <= f.to

NewestFirst(s) == \A i, j \in DOMAIN s : i < j => s[i].ts >= s[j].ts

(* ORDER BY ts_unix_ms DESC LIMIT: rows of one ts come in any order.       *)
Answers(rows, f) ==
    LET found == {r \in rows : Matches(r, f)}
        size == Min({Cardinality(found), Limit(f.limit)})
    IN {SubSeq(s, 1, size) : s \in {p \in SetToSeqs(found) : NewestFirst(p)}}

QueryAlerts(f) == Answers(table, f)

(* The answers a request may get.                                          *)
HandleGetAlerts(query) == QueryAlerts(Filters(query))

NoParameters == [vessel |-> Absent, zone |-> Absent,
                 from |-> Absent, to |-> Absent, limit |-> Absent]

-----------------------------------------------------------------------------
(* A history longer than the limit is read page by page, asking again up   *)
(* to the last ts of a full page (store.go 114-129).                       *)

Query == [vessel : Vessel \cup {Absent}, zone : {Absent}, from : {Absent},
          to : {Absent} \cup {r.ts : r \in Row}, limit : {Absent} \cup 1..(MaxLimit + 1)]

Pages(rows, q) == Answers(rows, Filters(q))
Found(rows, q) == {r \in rows : Matches(r, Filters(q))}
PageSize(q) == Limit(Number(q.limit))
Full(q, page) == Len(page) = PageSize(q)
NextQuery(q, page) == [q EXCEPT !.to = Last(page).ts]

(* A full page and the one asked for after it leave no gap: a row that is  *)
(* on neither is no newer than the last of the second, and that is full.   *)
NoGap(rows, q, page, next) ==
    \A r \in Found(rows, q) \ (ToSet(page) \cup ToSet(next)) :
      Full(q, next) /\ r.ts <= Last(next).ts

(* A full page is followed by an older one, unless a page's worth of rows  *)
(* has the ts it ends with: then the same page may come again for ever.    *)
GoesBack(rows, q, page, next) ==
    /\ Full(q, next)
    /\ Cardinality({r \in Found(rows, q) : r.ts = Last(page).ts}) < PageSize(q)
    => Last(next).ts < Last(page).ts

Readable(rows) ==
    \A q \in Query : \A page \in Pages(rows, q) :
      IF Full(q, page)
        THEN \A next \in Pages(rows, NextQuery(q, page)) :
               NoGap(rows, q, page, next) /\ GoesBack(rows, q, page, next)
        ELSE ToSet(page) = Found(rows, q)

EveryTableReads == \A rows \in SUBSET Row : IsFiniteSet(rows) => Readable(rows)

(* Whatever is stored, a page that is not full has every row that matches, *)
(* and a full one is followed by one that leaves no gap and goes back in   *)
(* time, as long as fewer rows than fill a page have one ts.               *)
PagesCoverHistory == table \subseteq Row /\ EveryTableReads
=============================================================================
