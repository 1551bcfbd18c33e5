--------------------------- MODULE StoreReaders ---------------------------
(***************************************************************************)
(* Reading a store that others append to, purge, replace and restore: the  *)
(* paged context protocol with its positions, gaps and restarts            *)
(* (`zanei context-read`, one process per request), the evidence behind an *)
(* observation, and the keyset-paged query of `zanei query` and the MCP    *)
(* tools (one connection, one statement per page).                         *)
(*                                                                         *)
(* Sources: zanei-core store/{context_page,append_sequence,reader,query,   *)
(* evidence_read}.rs; zanei-cli commands/{context_read,context_wire}.rs;   *)
(* zanei-mcp server.rs.                                                    *)
(***************************************************************************)
EXTENDS Integers, Sequences, FiniteSets

CONSTANTS Retentions,   \* the values retention_hours takes, in ticks
          PageLimits,   \* the page sizes context clients ask for
          QueryLimits,  \* the limits of queries
          MinPageRows,  \* MIN_QUERY_PAGE_ROWS
          MaxAppends,   \* bound: events ever appended
          MaxToday,     \* bound: the clock
          MaxDeletions, \* bound: purges a user asks for
          MaxUpheavals, \* bound: stores replaced or put back from a copy
          MaxSettings   \* bound: changes of the retention in force

ASSUME StoreReadersAssumption ==
    /\ Retentions \subseteq Nat \ {0} /\ Retentions # {}
    /\ PageLimits \subseteq Nat \ {0} /\ PageLimits # {}
    /\ QueryLimits \subseteq Nat \ {0} /\ QueryLimits # {}
    /\ MinPageRows \in Nat \ {0}
    /\ MaxToday \in Nat \ {0}
    /\ {MaxAppends, MaxDeletions, MaxUpheavals, MaxSettings} \subseteq Nat

VARIABLES storeId,    \* the identity row of the store at the path
          appended,   \* every row of its history, by append_sequence
          present,    \* the sequences whose rows are still there
          eventIds,   \* event ids given out so far
          today,
          hours,      \* retention_hours: in the configuration and in daemon_state
          beats,      \* the recorder's heartbeat is fresh
          deletions, upheavals, settings,
          reader,     \* which client this is: "context" or "query"
          request,    \* the context client's next request
          answer,     \* the last answer it got
          returned,   \* history: events handed out since the scan began at 0
          missing,    \* history: sequences reported as gaps since then
          rewound,    \* history: the store went back in time since then
          query       \* the query in progress
storeVars == <<storeId, appended, present, eventIds, today, hours, beats,
               deletions, upheavals, settings, rewound>>
readerVars == <<storeVars, reader, request, answer, returned, missing, query>>
clientVars == <<request, answer, returned, missing>>

AppendHead == Len(appended)   \* sqlite_sequence: purged rows keep their numbers
EffectiveHours == IF beats THEN hours.daemon ELSE hours.configured
Cutoff == today - EffectiveHours
Stale(s) == appended[s].ts < Cutoff

-----------------------------------------------------------------------------
(* Positions *)

NoAnchor == [id |-> 0, ts |-> 0]
NoPosition == [store |-> 0, sequence |-> 0, head |-> 0, anchor |-> NoAnchor]

AnchorAt(s) == IF s \in present THEN [id |-> appended[s].id, ts |-> appended[s].ts]
                                ELSE NoAnchor
Position(s, head) == [store |-> storeId, sequence |-> s, head |-> head, anchor |-> AnchorAt(s)]
Beginning == [store |-> storeId, sequence |-> 0, head |-> AppendHead, anchor |-> NoAnchor]

\* anchor_matches: only an expired row may be gone.
AnchorMatches(p) ==
    \/ p.anchor = NoAnchor
    \/ IF p.sequence \in present THEN AnchorAt(p.sequence) = p.anchor
                                 ELSE p.anchor.ts < Cutoff

Broken(p) ==
    IF p = NoPosition THEN "none"
    ELSE IF p.store # storeId THEN "store_changed"
    ELSE IF p.head > AppendHead \/ ~AnchorMatches(p) THEN "continuity_unknown"
    ELSE "none"

-----------------------------------------------------------------------------
(* The paged context protocol *)

NoAnswer == [kind |-> "none", after |-> 0, through |-> 0, rows |-> {}, next |-> NoPosition, upper |-> NoPosition]

Gap(kind, after, through, next, upper) ==
    [kind |-> kind, after |-> after, through |-> through, rows |-> {}, next |-> next, upper |-> upper]

\* The rows from the start on that are there, consecutive, and all readable or all expired.
RunEnd(start, upper, limit) ==
    CHOOSE t \in start + 1 .. upper :
        /\ t - start <= limit
        /\ \A s \in start + 1 .. t : s \in present /\ (Stale(s) <=> Stale(start + 1))
        /\ \/ t = upper \/ t - start = limit \/ t + 1 \notin present
           \/ Stale(t + 1) # Stale(start + 1)

\* Mutant: a page runs over the rows that are gone.
ReadRangeOverHoles(start, upper, limit) ==
    LET Rows == {s \in present : start.sequence < s /\ s <= upper.sequence /\ ~Stale(s)}
    IN [kind |-> "page", after |-> start.sequence, through |-> upper.sequence, rows |-> Rows,
        next |-> Position(upper.sequence, upper.head), upper |-> upper]
\* read_range and unavailable_range.
ReadRange(start, upper, limit) ==
    LET After == start.sequence
        Ahead == {s \in present : After < s /\ s <= upper.sequence}
        Unavailable(through) ==
            Gap("retention_or_deletion", After, through, Position(through, upper.head), upper)
        Page(through) ==
            [kind |-> "page", after |-> After, through |-> through, rows |-> After + 1 .. through,
             next |-> Position(through, upper.head), upper |-> upper]
    IN IF Ahead = {} THEN IF After < upper.sequence THEN Unavailable(upper.sequence) ELSE Page(After)
       ELSE IF After + 1 \notin Ahead
            THEN Unavailable((CHOOSE s \in Ahead : \A r \in Ahead : s <= r) - 1)
       ELSE LET Through == RunEnd(After, upper.sequence, limit)
            IN IF Stale(After + 1) THEN Unavailable(Through) ELSE Page(Through)

\* read_context_page_at: one read transaction over the head, the retention and the rows.
ReadPage(limit) ==
    LET Start == IF request.cursor = NoPosition THEN Beginning ELSE request.cursor
        Upper == IF request.upper = NoPosition THEN Position(AppendHead, AppendHead) ELSE request.upper
        Reason == IF Broken(request.cursor) # "none" THEN Broken(request.cursor)
                  ELSE Broken(request.upper)
        Requested == IF request.upper = NoPosition THEN Start.head ELSE request.upper.sequence
    IN IF Reason # "none" THEN Gap(Reason, Start.sequence, Requested, Beginning, Position(AppendHead, AppendHead))
       ELSE ReadRange(Start, Upper, limit)

\* context_read::respond and retain_prefix: a page over the byte budget gives up its tail.
Prefix(a, n) ==
    IF n = Cardinality(a.rows) THEN a
    ELSE LET Last == a.after + n
         IN [a EXCEPT !.rows = a.after + 1 .. Last, !.through = Last,
                      !.next = Position(Last, a.upper.head)]

\* The client asks for the next page up to its bound, takes the position of a gap, and asks
\* without a bound, for what came since, when it has reached it.
Follow(a) ==
    [cursor |-> a.next,
     upper |-> IF a.next.sequence < a.upper.sequence THEN a.upper ELSE NoPosition]

ServePage ==
    /\ reader = "context"
    /\ \E limit \in PageLimits :
         LET Full == ReadPage(limit) IN
         \E n \in IF Full.rows = {} THEN {0} ELSE 1 .. Cardinality(Full.rows) :
           LET a == Prefix(Full, n)
               Anew == a.kind \in {"store_changed", "continuity_unknown"} IN
           /\ answer' = a
           /\ request' = Follow(a)
           /\ returned' = IF Anew THEN {} ELSE returned \cup {appended[s].id : s \in a.rows}
           /\ missing' = IF Anew THEN {}
                         ELSE IF a.kind = "page" THEN missing ELSE missing \cup (a.after + 1 .. a.through)
           /\ rewound' = (rewound /\ ~Anew)
    /\ UNCHANGED <<storeId, appended, present, eventIds, today, hours, beats, deletions,
                   upheavals, settings, reader, query>>

\* Mutant: the row at the sequence is taken whatever its identity.
EvidenceAt(origin) ==
    IF storeId # origin.store THEN "denied"
    ELSE IF origin.sequence \notin present THEN "expired" ELSE "evidence"
\* read_evidence_at: the row at the sequence, if it is still the event that was observed.
Evidence(origin) ==
    IF storeId # origin.store THEN "denied"
    ELSE IF origin.sequence \notin present THEN "expired"
    ELSE IF AnchorAt(origin.sequence) # origin.anchor THEN "denied"
    ELSE IF Stale(origin.sequence) THEN "expired" ELSE "evidence"

\* The evidence of the last observation of a page, asked for later.
ServeEvidence ==
    /\ reader = "context" /\ answer.kind = "page" /\ answer.rows # {}
    /\ LET Kind == Evidence(answer.next)
       IN answer' = [answer EXCEPT !.kind = Kind,
                                   !.rows = IF Kind = "evidence" THEN {answer.next.sequence} ELSE {}]
    /\ UNCHANGED <<storeVars, reader, request, returned, missing, query>>

-----------------------------------------------------------------------------
(* query::run: pages by key, each its own statement *)

\* An event listed is a row, with the number of events listed before its page.
NoQuery == [on |-> FALSE, limit |-> 0, cutoff |-> 0, cursor |-> <<0, 0>>, events |-> {},
            throughout |-> {}]

Key(s) == <<appended[s].ts, appended[s].id>>
Precedes(k, l) == k[1] < l[1] \/ (k[1] = l[1] /\ k[2] < l[2])

\* Mutant: pages continue after the timestamp of the last row.
AfterTimestamp(s) == query.cursor[1] < Key(s)[1]
AfterCursor(s) == Precedes(query.cursor, Key(s))

\* The rows of S with fewer than n rows of T before them in key order.
Before(T, s) == {r \in T : Precedes(Key(r), Key(s))}
First(S, T, n) == {s \in S : Cardinality(Before(T, s)) < n}

\* query_events asks for one event more than it will return.
BeginQuery ==
    /\ reader = "query" /\ ~query.on
    /\ \E limit \in QueryLimits :
         query' = [on |-> TRUE, limit |-> limit + 1, cutoff |-> Cutoff, cursor |-> <<0, 0>>,
                   events |-> {}, throughout |-> present]
    /\ UNCHANGED <<storeVars, reader, clientVars>>

\* A page reads the first rows after the cursor, lists the known ones, and stops at the
\* one that makes the limit; a page that is not full was the last.
QueryPage ==
    /\ reader = "query" /\ query.on /\ Cardinality(query.events) < query.limit
    /\ LET Remaining == query.limit - Cardinality(query.events)
           PageRows == IF Remaining > MinPageRows THEN Remaining ELSE MinPageRows
           Matching == {s \in present : appended[s].ts >= query.cutoff /\ AfterCursor(s)}
           Page == First(Matching, Matching, PageRows)
           Known == {s \in Page : appended[s].known}
           Taken == First(Page, Known, Remaining)
           Last == CHOOSE s \in Taken : \A r \in Taken \ {s} : Precedes(Key(r), Key(s))
       IN query' = [query EXCEPT
            !.on = (Cardinality(Matching) >= PageRows /\ Cardinality(Known) < Remaining),
            !.cursor = IF Taken = {} THEN @ ELSE Key(Last),
            !.events = @ \cup {[from |-> Cardinality(@), row |-> s] : s \in Known \cap Taken}]
    /\ UNCHANGED <<storeVars, reader, clientVars>>

-----------------------------------------------------------------------------
(* The store, while it is read *)

AppendRow ==
    /\ beats /\ eventIds < MaxAppends
    /\ \E late \in {0, 1}, known \in BOOLEAN :
         /\ today > late
         /\ appended' = Append(appended, [id |-> eventIds + 1, ts |-> today - late, known |-> known])
         /\ reader = "context" => known
    /\ present' = present \cup {AppendHead + 1}
    /\ eventIds' = eventIds + 1
    /\ UNCHANGED <<storeId, today, hours, beats, deletions, upheavals, settings, rewound, reader, clientVars, query>>

RemoveRows(gone) ==
    /\ gone # {}
    /\ present' = present \ gone
    /\ query' = [query EXCEPT !.throughout = @ \ gone]
    /\ UNCHANGED <<storeId, appended, eventIds, today, hours, beats, upheavals, settings, rewound, reader, clientVars>>

\* The recorder's sweep, by the retention it runs with.
Sweep == /\ beats /\ RemoveRows({s \in present : appended[s].ts < today - hours.daemon})
         /\ UNCHANGED deletions

\* `zanei purge`: whatever its filter selects.
Purge == /\ deletions < MaxDeletions
         /\ \E gone \in SUBSET present : RemoveRows(gone)
         /\ deletions' = deletions + 1

\* The file at the path becomes another store, and the recorder starts it empty.
Replace ==
    /\ reader = "context" /\ upheavals < MaxUpheavals
    /\ storeId' = storeId + 1 /\ appended' = <<>> /\ present' = {} /\ rewound' = FALSE
    /\ upheavals' = upheavals + 1
    /\ UNCHANGED <<eventIds, today, hours, beats, deletions, settings, reader, clientVars, query>>

\* A copy taken earlier is put back (external).
PutBack ==
    /\ reader = "context" /\ upheavals < MaxUpheavals
    /\ \E n \in 0 .. AppendHead - 1 :
         /\ appended' = SubSeq(appended, 1, n)
         /\ present' = present \cap (1 .. n)
    /\ rewound' = TRUE
    /\ upheavals' = upheavals + 1
    /\ UNCHANGED <<storeId, eventIds, today, hours, beats, deletions, settings, reader, clientVars, query>>

\* The configuration is edited; the recorder takes it over, stops or comes back.
RetentionChanges ==
    /\ settings < MaxSettings
    /\ \/ /\ \E h \in Retentions \ {hours.configured} : hours' = [hours EXCEPT !.configured = h]
          /\ UNCHANGED beats
       \/ /\ beats /\ hours.daemon # hours.configured
          /\ hours' = [hours EXCEPT !.daemon = hours.configured]
          /\ UNCHANGED beats
       \/ /\ beats' = ~beats
          /\ hours' = IF beats THEN hours ELSE [hours EXCEPT !.daemon = hours.configured]
    /\ settings' = settings + 1
    /\ UNCHANGED <<storeId, appended, present, eventIds, today, deletions, upheavals, rewound,
                   reader, clientVars, query>>

Morning ==
    /\ today < MaxToday
    /\ today' = today + 1
    /\ UNCHANGED <<storeId, appended, present, eventIds, hours, beats, deletions, upheavals,
                   settings, rewound, reader, clientVars, query>>

-----------------------------------------------------------------------------
ReadersInit ==
    /\ storeId = 1 /\ appended = <<>> /\ present = {} /\ eventIds = 0 /\ today = 1
    /\ \E h \in Retentions : hours = [configured |-> h, daemon |-> h]
    /\ beats = TRUE
    /\ deletions = 0 /\ upheavals = 0 /\ settings = 0
    /\ reader \in {"context", "query"}
    /\ request = [cursor |-> NoPosition, upper |-> NoPosition]
    /\ answer = NoAnswer /\ returned = {} /\ missing = {} /\ rewound = FALSE
    /\ query = NoQuery

ReadersNext ==
    \/ ServePage \/ ServeEvidence \/ BeginQuery \/ QueryPage
    \/ AppendRow \/ Sweep \/ Purge \/ Replace \/ PutBack
    \/ RetentionChanges \/ Morning

ReadersSpec == ReadersInit /\ [][ReadersNext]_readerVars

-----------------------------------------------------------------------------
(* Properties *)

Positions == [store : Nat, sequence : Nat, head : Nat, anchor : [id : Nat, ts : Int]]

\* Every variable has its type, and a row that is there was appended.
ReadersTypeOK ==
    /\ present \subseteq 1 .. AppendHead
    /\ \A s \in 1 .. AppendHead : appended[s].id \in 1 .. eventIds
    /\ storeId \in Nat /\ eventIds \in 0 .. MaxAppends /\ today \in 1 .. MaxToday
    /\ hours \in [configured : Retentions, daemon : Retentions]
    /\ beats \in BOOLEAN /\ rewound \in BOOLEAN
    /\ deletions \in 0 .. MaxDeletions /\ upheavals \in 0 .. MaxUpheavals
    /\ settings \in 0 .. MaxSettings
    /\ request \in [cursor : Positions, upper : Positions]
    /\ returned \subseteq 1 .. eventIds /\ missing \subseteq 1 .. MaxAppends

\* However the store is appended to, swept, purged and replaced between two requests, a
\* client that follows the answers has, for every sequence up to its position, received
\* the event or been told that it is gone (ContextGap; a missing interval is never an
\* empty success).  A copy put back is only noticed through an anchor or the head.
NothingSkipped ==
    (request.cursor.store = storeId /\ ~rewound) =>
        \A s \in 1 .. request.cursor.sequence :
            appended[s].id \in returned \/ s \in missing

\* An answer hands out only rows that are there and within the retention in force at
\* that moment, and as evidence only the event that was observed; a gap covers no
\* readable row; and the position moves until it reaches the bound.
AnswersHold ==
    answer' # answer =>
      /\ \A s \in answer'.rows : s \in present /\ ~Stale(s)
      /\ answer'.kind = "evidence" =>
           answer.next.store = storeId /\ AnchorAt(answer.next.sequence) = answer.next.anchor
      /\ answer'.kind = "retention_or_deletion" =>
           \A s \in answer'.after + 1 .. answer'.through : s \notin present \/ Stale(s)
      /\ answer'.kind \in {"page", "retention_or_deletion"} =>
           \/ answer'.next.sequence > answer'.after
           \/ answer'.next.sequence = answer'.upper.sequence

\* A query that pages by key while rows come and go lists events in order, none twice,
\* and, of those that stayed in the store throughout and were within retention when it
\* began, every one before its last; one that is not reported truncated lists them all.
QueryExact ==
    (reader = "query" /\ ~query.on /\ query.limit > 0) =>
        LET Truncated == Cardinality(query.events) > query.limit - 1
        IN /\ \A e, f \in query.events : e.from < f.from => Precedes(Key(e.row), Key(f.row))
           /\ \A s \in query.throughout :
                /\ appended[s].known /\ appended[s].ts >= query.cutoff
                /\ Truncated => \E e \in query.events : Precedes(Key(s), Key(e.row))
                => \E e \in query.events : e.row = s
=============================================================================
