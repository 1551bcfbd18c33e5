------------------------------ MODULE Timeline ------------------------------
(***************************************************************************)
(* How the rows of a time range become the sessions of a timeline: split   *)
(* at idle gaps and activations, content snapshots counted into the        *)
(* session of their application, short visits absorbed into the            *)
(* application around them, and the result cut down to a token budget by   *)
(* coarsening, by giving up the event ids, by merging neighbours and at    *)
(* last by dropping the oldest sessions.  One action per phase, and per    *)
(* iteration where the builder loops.                                      *)
(*                                                                         *)
(* Sources: zanei-core timeline/{builder,model,render}.rs; the reads of    *)
(* zanei-cli commands/read.rs and zanei-mcp server.rs.                     *)
(***************************************************************************)
EXTENDS Integers, Sequences

CONSTANTS Programs,     \* applications
          MaxRows,      \* bound: events of the range
          MaxContent,   \* bound: content snapshots of the range
          LastSecond,   \* bound: times are 1 .. LastSecond
          IdleGap,      \* IDLE_GAP
          Bounce,       \* BOUNCE
          Budgets       \* token budgets, in the units of Estimate

ASSUME TimelineAssumption ==
    /\ {MaxRows, MaxContent, LastSecond, IdleGap, Bounce} \subseteq Nat
    /\ Budgets \subseteq Nat

VARIABLES rows,      \* the events read, sorted: [at, app, activate]
          content,   \* the metadata of content snapshots read, sorted: [at, app]
          options,   \* granularity, format and token budget
          phase,
          base,      \* base_sessions
          pendingIn, \* what the loop under way has still to take: events, snapshots or sessions
          raw,       \* raw_sessions
          ids,       \* the sessions list their event ids
          truncated
timelineVars == <<rows, content, options, phase, base, pendingIn, raw, ids, truncated>>
inputs == <<rows, content>>

NoSpan == [app |-> "none", start |-> 0, end |-> 0]
\* A session: its events, the snapshots counted in it, and for one made of
\* snapshots only, their application and their span.
Session(events, snaps, span) == [events |-> events, snaps |-> snaps, span |-> span]
OfSnapshot(k) ==
    Session(<<>>, {k}, [app |-> content[k].app, start |-> content[k].at, end |-> content[k].at])

StartAt(s) ==
    IF s.events = <<>> THEN s.span.start
    ELSE IF s.span = NoSpan \/ rows[s.events[1]].at < s.span.start THEN rows[s.events[1]].at
    ELSE s.span.start
App(s) == IF s.events = <<>> THEN s.span.app ELSE rows[s.events[1]].app

-----------------------------------------------------------------------------
(* split_sessions *)

Splits(previous, next) ==
    \/ rows[next].at - rows[previous].at > IdleGap
    \/ rows[next].activate /\ rows[previous].app # rows[next].app

\* The next event joins the session under way or begins another.
Extended(sessions, r) ==
    IF sessions = <<>> \/ Splits(r - 1, r)
    THEN Append(sessions, Session(<<r>>, {}, NoSpan))
    ELSE [sessions EXCEPT ![Len(sessions)] = Session(Append(@.events, r), @.snaps, @.span)]

Split ==
    /\ phase = "split" /\ pendingIn # <<>>
    /\ base' = Extended(base, Head(pendingIn))
    /\ pendingIn' = Tail(pendingIn)
    /\ UNCHANGED <<inputs, options, phase, raw, ids, truncated>>

BeginAssign ==
    /\ phase = "split" /\ pendingIn = <<>>
    /\ pendingIn' = [k \in 1 .. Len(content) |-> k]
    /\ phase' = "assign"
    /\ UNCHANGED <<inputs, options, base, raw, ids, truncated>>

-----------------------------------------------------------------------------
(* assign_content_snapshots *)

\* snapshot_session_is_open: a session of snapshots only closes when another application's
\* session begins.
IsOpen(sessions, i, k) ==
    \/ sessions[i].events # <<>>
    \/ ~\E j \in 1 .. Len(sessions) :
           /\ sessions[j].events # <<>>
           /\ StartAt(sessions[j]) > StartAt(sessions[i]) /\ StartAt(sessions[j]) <= content[k].at
           /\ App(sessions[j]) # content[k].app

\* Mutant: whatever session is running, not the one of the snapshot's application.
RunningSessions(sessions, k) == {i \in 1 .. Len(sessions) : StartAt(sessions[i]) <= content[k].at}
MatchingSessions(sessions, k) ==
    {i \in 1 .. Len(sessions) :
        /\ StartAt(sessions[i]) <= content[k].at
        /\ App(sessions[i]) = content[k].app
        /\ IsOpen(sessions, i, k)}

\* The snapshot is counted in a session, or is one of its own before session i.
CountedIn(sessions, i, k) ==
    LET s == sessions[i]
    IN [sessions EXCEPT ![i] =
           Session(s.events, s.snaps \cup {k},
                   IF s.span = NoSpan THEN NoSpan ELSE [s.span EXCEPT !.end = content[k].at])]
Inserted(sessions, i, s) ==
    [j \in 1 .. Len(sessions) + 1 |->
        IF j < i THEN sessions[j] ELSE IF j = i THEN s ELSE sessions[j - 1]]

Assigned(sessions, k) ==
    LET Matching == MatchingSessions(sessions, k)
        Later == {i \in 1 .. Len(sessions) : StartAt(sessions[i]) > content[k].at}
    IN IF Matching # {}
       THEN CountedIn(sessions, CHOOSE m \in Matching : \A n \in Matching : n <= m, k)
       ELSE Inserted(sessions,
                     IF Later = {} THEN Len(sessions) + 1
                     ELSE CHOOSE m \in Later : \A n \in Later : m <= n,
                     OfSnapshot(k))

AssignSnapshot ==
    /\ phase = "assign" /\ pendingIn # <<>>
    /\ base' = Assigned(base, Head(pendingIn))
    /\ pendingIn' = Tail(pendingIn)
    /\ UNCHANGED <<inputs, options, phase, raw, ids, truncated>>

-----------------------------------------------------------------------------
(* sessions_for_granularity, absorb_bounces *)

\* The sessions as they are, or the absorption of short visits begins.
Group(granularity) ==
    IF granularity = "fine" THEN raw' = base /\ pendingIn' = <<>> /\ phase' = "fit"
    ELSE raw' = <<>> /\ pendingIn' = base /\ phase' = "absorb"

Assemble ==
    /\ phase = "assign" /\ pendingIn = <<>>
    /\ Group(options.granularity)
    /\ UNCHANGED <<inputs, options, base, ids, truncated>>

\* The last three: there, away for less than Bounce, and back.
Bounces(sessions) ==
    LET n == Len(sessions) IN
    /\ n >= 3
    /\ \A i \in n - 2 .. n : sessions[i].events # <<>>
    /\ App(sessions[n - 2]) = App(sessions[n])
    /\ StartAt(sessions[n]) - StartAt(sessions[n - 1]) < Bounce

\* The visit's events and snapshots go to the application around it.
Together(a, b, c) == Session(a.events \o b.events \o c.events, a.snaps \cup b.snaps \cup c.snaps, NoSpan)

AbsorbBounce ==
    /\ phase = "absorb" /\ Bounces(raw)
    /\ LET n == Len(raw)
       IN raw' = Append(SubSeq(raw, 1, n - 3), Together(raw[n - 2], raw[n - 1], raw[n]))
    /\ UNCHANGED <<inputs, options, phase, base, pendingIn, ids, truncated>>

AbsorbNext ==
    /\ phase = "absorb" /\ ~Bounces(raw)
    /\ IF pendingIn # <<>>
       THEN raw' = Append(raw, Head(pendingIn)) /\ pendingIn' = Tail(pendingIn) /\ UNCHANGED phase
       ELSE phase' = "fit" /\ UNCHANGED <<raw, pendingIn>>
    /\ UNCHANGED <<inputs, options, base, ids, truncated>>

-----------------------------------------------------------------------------
(* The token budget *)

\* What a rendering costs: one unit, two per session, and one per id and interaction listed.
Cost(s, listed, fine) == 2 + (IF listed THEN Len(s.events) ELSE 0) + (IF fine THEN Len(s.events) ELSE 0)
Estimate(sessions, listed, fine) ==
    LET Sum[n \in 0 .. Len(sessions)] ==
            IF n = 0 THEN 1 ELSE Sum[n - 1] + Cost(sessions[n], listed, fine)
    IN Sum[Len(sessions)]

OverBudget == Estimate(raw, ids, options.granularity = "fine") > options.budget

\* The same key: bundle id or name of the first event or of the snapshots.
MergedSpan(a, b) ==
    IF a = NoSpan THEN b ELSE IF b = NoSpan THEN a
    ELSE [a EXCEPT !.start = IF b.start < @ THEN b.start ELSE @,
                   !.end = IF b.end > @ THEN b.end ELSE @]
MergedSessions(a, b) == Session(a.events \o b.events, a.snaps \cup b.snaps, MergedSpan(a.span, b.span))

Fits == /\ phase \in {"fit", "bare", "drop"} /\ (~OverBudget \/ raw = <<>>)
        /\ phase' = "done"
        /\ UNCHANGED <<inputs, options, base, pendingIn, raw, ids, truncated>>

Coarsen ==
    /\ phase = "fit" /\ OverBudget /\ raw # <<>> /\ options.granularity = "fine"
    /\ options' = [options EXCEPT !.granularity = "coarse"]
    /\ Group("coarse")
    /\ UNCHANGED <<inputs, base, ids, truncated>>

\* A JSON timeline gives up its event ids.
ListNoIds ==
    /\ phase = "fit" /\ OverBudget /\ raw # <<>> /\ options.granularity = "coarse"
    /\ ids' = FALSE
    /\ phase' = "bare"
    /\ UNCHANGED <<inputs, options, base, pendingIn, raw, truncated>>

MergeNeighbours ==
    /\ phase = "bare" /\ OverBudget /\ raw # <<>>
    /\ raw' = <<>> /\ pendingIn' = raw
    /\ phase' = "merge"
    /\ UNCHANGED <<inputs, options, base, ids, truncated>>

MergeNext ==
    /\ phase = "merge"
    /\ IF pendingIn # <<>>
       THEN /\ raw' = IF raw # <<>> /\ App(raw[Len(raw)]) = App(Head(pendingIn))
                      THEN [raw EXCEPT ![Len(raw)] = MergedSessions(@, Head(pendingIn))]
                      ELSE Append(raw, Head(pendingIn))
            /\ pendingIn' = Tail(pendingIn)
            /\ UNCHANGED phase
       ELSE phase' = "drop" /\ UNCHANGED <<raw, pendingIn>>
    /\ UNCHANGED <<inputs, options, base, ids, truncated>>

DropOldest ==
    /\ phase = "drop" /\ OverBudget /\ raw # <<>>
    /\ raw' = Tail(raw)
    /\ truncated' = TRUE
    /\ UNCHANGED <<inputs, options, phase, base, pendingIn, ids>>

-----------------------------------------------------------------------------
Seconds == 1 .. LastSecond
SortedLists(S, bound) ==
    UNION {{s \in [1 .. n -> S] : \A i, j \in 1 .. n : i <= j => s[i].at <= s[j].at} : n \in 0 .. bound}

TimelineInit ==
    /\ rows \in SortedLists([at : Seconds, app : Programs, activate : BOOLEAN], MaxRows)
    /\ content \in SortedLists([at : Seconds, app : Programs], MaxContent)
    /\ options \in [granularity : {"fine", "coarse"}, budget : Budgets]
    /\ ids \in BOOLEAN     \* the format: JSON lists ids, Markdown does not
    /\ phase = "split" /\ pendingIn = [r \in 1 .. Len(rows) |-> r]
    /\ base = <<>> /\ raw = <<>> /\ truncated = FALSE

TimelineNext ==
    \/ Split \/ BeginAssign \/ AssignSnapshot \/ Assemble \/ AbsorbBounce \/ AbsorbNext
    \/ Fits \/ Coarsen \/ ListNoIds \/ MergeNeighbours \/ MergeNext \/ DropOldest

TimelineSpec == TimelineInit /\ [][TimelineNext]_timelineVars

-----------------------------------------------------------------------------
Phases == {"split", "assign", "absorb", "fit", "bare", "merge", "drop", "done"}
Spans == [app : Programs \cup {"none"}, start : 0 .. LastSecond, end : 0 .. LastSecond]
Sessions == [events : Seq(1 .. Len(rows)), snaps : SUBSET (1 .. Len(content)), span : Spans]

TimelineTypeOK ==
    /\ rows \in Seq([at : Seconds, app : Programs, activate : BOOLEAN]) /\ Len(rows) <= MaxRows
    /\ content \in Seq([at : Seconds, app : Programs]) /\ Len(content) <= MaxContent
    /\ options \in [granularity : {"fine", "coarse"}, budget : Budgets]
    /\ ids \in BOOLEAN /\ truncated \in BOOLEAN /\ phase \in Phases
    /\ base \in Seq(Sessions) /\ raw \in Seq(Sessions)
    /\ pendingIn \in IF phase = "split" THEN Seq(1 .. Len(rows))
                     ELSE IF phase = "assign" THEN Seq(1 .. Len(content)) ELSE Seq(Sessions)

\* One after another the sessions list events in their order, none twice.
Ascending(L) ==
    \A i, j \in 1 .. Len(L) : \A p \in 1 .. Len(L[i].events), q \in 1 .. Len(L[j].events) :
        i < j \/ (i = j /\ p < q) => L[i].events[p] < L[j].events[q]
HasEvent(L, r) == \E i \in 1 .. Len(L) : \E p \in 1 .. Len(L[i].events) : L[i].events[p] = r
HasSnapshot(L, k) == \E i \in 1 .. Len(L) : k \in L[i].snaps
Apart(L) == \A i, j \in 1 .. Len(L) : i # j => L[i].snaps \cap L[j].snaps = {}
InOrder(L) == \A i, j \in 1 .. Len(L) : i <= j => StartAt(L[i]) <= StartAt(L[j])

\* What the builder has taken so far: the first n events and m snapshots, and no others.
Taking(L, n, m) ==
    /\ Ascending(L) /\ Apart(L) /\ InOrder(L)
    /\ \A r \in 1 .. Len(rows) : HasEvent(L, r) <=> r <= n
    /\ \A k \in 1 .. Len(content) : HasSnapshot(L, k) <=> k <= m

\* A snapshot is counted with its own application, in a session begun by then.
CountedRightly(L) ==
    \A i \in 1 .. Len(L) : \A k \in L[i].snaps :
        App(L[i]) = content[k].app /\ StartAt(L[i]) <= content[k].at

\* Every phase keeps every event of the range once and in order, and every snapshot in one
\* session, the right one; a truncated timeline has lost the oldest only, and says so.
\* Sessions come in the order they began; and a finished timeline is within its budget.
TimelineSound ==
    LET Grouped == IF phase \in {"absorb", "merge"} THEN raw \o pendingIn ELSE raw
    IN /\ CountedRightly(base)
       /\ Taking(base, IF phase = "split" THEN Len(rows) - Len(pendingIn) ELSE Len(rows),
                 CASE phase = "split" -> 0 [] phase = "assign" -> Len(content) - Len(pendingIn)
                   [] OTHER -> Len(content))
       /\ phase \notin {"split", "assign"} =>
            IF truncated
            THEN /\ Ascending(Grouped) /\ Apart(Grouped) /\ InOrder(Grouped)
                 /\ \A q, r \in 1 .. Len(rows) : HasEvent(Grouped, q) /\ q <= r => HasEvent(Grouped, r)
            ELSE Taking(Grouped, Len(rows), Len(content))
       /\ phase = "done" => ~OverBudget \/ raw = <<>>
=============================================================================
