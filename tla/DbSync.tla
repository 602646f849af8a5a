-------------------------------- MODULE DbSync --------------------------------
(***************************************************************************)
(* How the trader's database follows the trader from machine to machine:   *)
(* each watchdog fetches its peer's database while it is passive and once  *)
(* more before it starts its own trader (cmd/watchdog/node.go, the peer's  *)
(* handler in server.go, internal/failover/peer.go and snapshot.go).       *)
(*                                                                         *)
(* A database is the set of rows written to it, a row being the second it  *)
(* was written in and a number of its own.  A fetch runs next to the other *)
(* machine's trader and fetches, so it is several steps.  Time is seconds  *)
(* of one clock, which is all that If-Modified-Since tells apart; the      *)
(* starts of traders, compared by the nanosecond, are simply numbered.     *)
(*                                                                         *)
(* Who may trade is taken from Fencing.tla and Handover.tla: a trader is   *)
(* started, its fetch included, while the other machine has none (turn).   *)
(***************************************************************************)
EXTENDS Integers, FiniteSets

CONSTANTS
    Node, NoNode,
    MaxSecond, MaxRows, MaxStarts, MaxFaults     \* bounds

ASSUME NodeAssumption == IsFiniteSet(Node) /\ Cardinality(Node) = 2 /\ NoNode \notin Node
ASSUME BoundAssumption == {MaxSecond, MaxRows, MaxStarts, MaxFaults} \subseteq Nat

VARIABLES
    second,     \* the clock
    rows,       \* rows written so far
    starts,     \* traders started so far
    faults,     \* restarts of watchdogs and failed starts so far
    db,         \* the database of a node
    mtime,      \* DBFreshness: the second it was modified in
    turn,       \* the node that runs its trader or is about to
    running,    \* its trader runs
    last,       \* history: the node whose trader was started last
    start,      \* lastTraderStart, 0 if the watchdog has started none
    synced,     \* syncedFromPeer
    peerHB,     \* the peer's heartbeat a node saw last
    pull,       \* pullDB under way in a node
    astray      \* history: the node whose trader was started last has
                \* then asked for the other's database

files == <<db, mtime>>
memory == <<start, synced, peerHB>>
bounds == <<second, rows, starts, faults>>
vars == <<bounds, files, turn, running, last, memory, pull, astray>>

Peer(n) == CHOOSE m \in Node : m # n

Never == -1     \* the zero time of a file that is not there

Second == 0 .. MaxSecond
Row == Second \X (1 .. MaxRows)
Heartbeat == [running : BOOLEAN, start : 0 .. MaxStarts]
Unseen == [running |-> FALSE, start |-> 0]

\* before is TRUE in a pull that goes before a start, outdated records that
\* the peer had stopped since the heartbeat it relies on.
Over == {"fetched", "failed", "refused"}
Fetching == {"sampled", "copied"}
Phase == {"none"} \cup Fetching \cup Over
Pull == [phase : Phase, before : BOOLEAN, freshness : Second \cup {Never},
         content : SUBSET Row, outdated : BOOLEAN]
NoPull == [phase |-> "none", before |-> FALSE, freshness |-> Never,
           content |-> {}, outdated |-> FALSE]

Idle(n) == pull[n].phase = "none" /\ ~(running /\ turn = n)

Init ==
    /\ second = 0 /\ rows = 0 /\ starts = 0 /\ faults = 0
    /\ db = [n \in Node |-> {}]
    /\ mtime = [n \in Node |-> Never]
    /\ turn = NoNode
    /\ running = FALSE
    /\ last = NoNode
    /\ start = [n \in Node |-> 0]
    /\ synced = [n \in Node |-> FALSE]
    /\ peerHB = [n \in Node |-> Unseen]
    /\ pull = [n \in Node |-> NoPull]
    /\ astray = FALSE

-----------------------------------------------------------------------------
(***************************************************************************)
(* The trader                                                              *)
(***************************************************************************)

\* The trader writes a row, a fill or the kill switch, say.
Write(n) ==
    /\ running /\ turn = n
    /\ rows < MaxRows
    /\ rows' = rows + 1
    /\ db' = [db EXCEPT ![n] = @ \cup {<<second, rows + 1>>}]
    /\ mtime' = [mtime EXCEPT ![n] = second]
    /\ UNCHANGED <<second, starts, faults, turn, running, last, memory, pull, astray>>

\* It is stopped, or exits.  Closing the database merges the log into it.
Stop(n) ==
    /\ running /\ turn = n
    /\ running' = FALSE
    /\ turn' = NoNode
    /\ \E m \in {mtime[n], second} : mtime' = [mtime EXCEPT ![n] = m]
    /\ UNCHANGED <<bounds, db, last, memory, pull, astray>>

\* startTrader, after its pull, whatever came of that.
StartTrader(n) ==
    /\ pull[n].phase \in Over /\ pull[n].before
    /\ starts < MaxStarts
    /\ starts' = starts + 1
    /\ running' = TRUE
    /\ last' = n
    /\ start' = [start EXCEPT ![n] = starts + 1]
    /\ synced' = [synced EXCEPT ![n] = FALSE]
    /\ pull' = [pull EXCEPT ![n] = NoPull]
    /\ UNCHANGED <<second, rows, faults, files, turn, peerHB, astray>>

\* A process that cannot be started.
StartFails(n) ==
    /\ pull[n].phase \in Over /\ pull[n].before
    /\ faults < MaxFaults
    /\ faults' = faults + 1
    /\ turn' = NoNode
    /\ pull' = [pull EXCEPT ![n] = NoPull]
    /\ UNCHANGED <<second, rows, starts, files, running, last, memory, astray>>

-----------------------------------------------------------------------------
(***************************************************************************)
(* The passive watchdog                                                    *)
(***************************************************************************)

\* The tick asks for the peer's heartbeat.
See(n) ==
    /\ pull[n].phase = "none"
    /\ peerHB' = [peerHB EXCEPT ![n] =
           [running |-> running /\ turn = Peer(n), start |-> start[Peer(n)]]]
    /\ UNCHANGED <<bounds, files, turn, running, last, start, synced, pull, astray>>

\* Mutant: the peer is asked whenever its trader has ever run.
AuthoritativeOnce(n) == peerHB[n].running \/ peerHB[n].start # 0

\* Mutant: only a peer that trades now is asked.
AuthoritativeRunning(n) == peerHB[n].running

\* peerAuthoritativeLocked.
Authoritative(n) ==
    \/ peerHB[n].running
    \/ peerHB[n].start # 0 /\ start[n] = 0
    \/ peerHB[n].start > start[n]

\* If-Modified-Since: only of a file that came from the peer.
Since(n) == IF synced[n] THEN mtime[n] ELSE Never

\* handleDB answers that the file is not modified.
NotModified(n) == mtime[Peer(n)] <= Since(n)

\* A pull that is over, and with it a passive one.
Ended(n, phase) ==
    IF pull[n].before THEN [NoPull EXCEPT !.phase = phase, !.before = TRUE] ELSE NoPull

\* pullDB, until the peer has looked when its file was modified.
Ask(n, before) ==
    CASE ~Authoritative(n) -> [NoPull EXCEPT !.phase = "refused", !.before = before]
      [] Authoritative(n) /\ mtime[Peer(n)] = Never ->
             [NoPull EXCEPT !.phase = "failed", !.before = before]
      [] Authoritative(n) /\ mtime[Peer(n)] # Never /\ NotModified(n) ->
             [NoPull EXCEPT !.phase = "fetched", !.before = before]
      [] OTHER ->
             [NoPull EXCEPT !.phase = "sampled", !.before = before,
                            !.freshness = mtime[Peer(n)],
                            !.outdated = peerHB[n].running /\ ~(running /\ turn = Peer(n))]

Pulls(n) ==
    /\ Idle(n)
    /\ astray' = (astray \/ (last = n /\ Authoritative(n)))
    /\ UNCHANGED <<bounds, files, running, last, memory>>

\* The pull before a start, once the lease is there.
PullBefore(n) ==
    /\ turn = NoNode /\ starts < MaxStarts
    /\ turn' = n
    /\ pull' = [pull EXCEPT ![n] = Ask(n, TRUE)]
    /\ Pulls(n)

\* The pull of syncPassive; one that fetches nothing changes nothing.
PullPassive(n) ==
    /\ Ask(n, FALSE).phase = "sampled"
    /\ pull' = [pull EXCEPT ![n] = Ask(n, FALSE)]
    /\ Pulls(n)
    /\ UNCHANGED turn

\* SnapshotDB, after the time of modification was read.
Copy(n) ==
    /\ pull[n].phase = "sampled"
    /\ pull' = [pull EXCEPT ![n].phase = "copied", ![n].content = db[Peer(n)]]
    /\ UNCHANGED <<bounds, files, turn, running, last, memory, astray>>

\* Mutant: the new file has the time of its download.
ReplaceUndated(n) ==
    /\ pull[n].phase = "copied"
    /\ db' = [db EXCEPT ![n] = pull[n].content]
    /\ mtime' = [mtime EXCEPT ![n] = second]
    /\ synced' = [synced EXCEPT ![n] = TRUE]
    /\ pull' = [pull EXCEPT ![n] = Ended(n, "fetched")]
    /\ UNCHANGED <<bounds, turn, running, last, start, peerHB, astray>>

\* ReplaceDB, Chtimes and syncedFromPeer.
Replace(n) ==
    /\ pull[n].phase = "copied"
    /\ db' = [db EXCEPT ![n] = pull[n].content]
    /\ mtime' = [mtime EXCEPT ![n] = pull[n].freshness]
    /\ synced' = [synced EXCEPT ![n] = TRUE]
    /\ pull' = [pull EXCEPT ![n] = Ended(n, "fetched")]
    /\ UNCHANGED <<bounds, turn, running, last, start, peerHB, astray>>

\* Any failure of the fetch leaves the file alone, also that the peer was not
\* heard for too long.  A passive pull that fails is like one that was never
\* begun, so only the one before a start matters.
PullFails(n) ==
    /\ pull[n].phase \in Fetching /\ pull[n].before
    /\ pull' = [pull EXCEPT ![n] = Ended(n, "failed")]
    /\ UNCHANGED <<bounds, files, turn, running, last, memory, astray>>

\* The machine, or the watchdog with its trader, goes down and comes back.
\* lastTraderStart and syncedFromPeer are not stored.
Restart(n) ==
    /\ faults < MaxFaults
    /\ faults' = faults + 1
    /\ start' = [start EXCEPT ![n] = 0]
    /\ synced' = [synced EXCEPT ![n] = FALSE]
    /\ peerHB' = [peerHB EXCEPT ![n] = Unseen]
    /\ IF turn = n THEN turn' = NoNode /\ running' = FALSE ELSE UNCHANGED <<turn, running>>
    /\ pull' = [m \in Node |->
           IF m = n THEN NoPull
           ELSE IF pull[m].phase \in Fetching THEN Ended(m, "failed")
           ELSE pull[m]]
    /\ UNCHANGED <<second, rows, starts, files, last, astray>>

Tick ==
    /\ second < MaxSecond
    /\ second' = second + 1
    /\ UNCHANGED <<rows, starts, faults, files, turn, running, last, memory, pull, astray>>

Next ==
    \/ Tick
    \/ \E n \in Node :
       \/ Write(n) \/ Stop(n) \/ StartTrader(n) \/ StartFails(n)
       \/ See(n) \/ PullBefore(n) \/ PullPassive(n)
       \/ Copy(n) \/ Replace(n) \/ PullFails(n) \/ Restart(n)

(***************************************************************************)
(* A passive node keeps looking at its peer and asking it, and what it     *)
(* asks is answered.                                                       *)
(***************************************************************************)
Proceed(n) == StartTrader(n) \/ Copy(n) \/ Replace(n)

Fairness ==
    \A n \in Node : WF_vars(Proceed(n)) /\ WF_vars(See(n)) /\ WF_vars(PullPassive(n))

Spec == Init /\ [][Next]_vars /\ Fairness

-----------------------------------------------------------------------------
(***************************************************************************)
(* Properties                                                              *)
(***************************************************************************)
TypeOK ==
    /\ second \in Second /\ rows \in 0 .. MaxRows
    /\ starts \in 0 .. MaxStarts /\ faults \in 0 .. MaxFaults
    /\ db \in [Node -> SUBSET Row]
    /\ mtime \in [Node -> Second \cup {Never}]
    /\ turn \in Node \cup {NoNode}
    /\ running \in BOOLEAN
    /\ last \in Node \cup {NoNode}
    /\ start \in [Node -> 0 .. MaxStarts]
    /\ synced \in [Node -> BOOLEAN]
    /\ peerHB \in [Node -> Heartbeat]
    /\ pull \in [Node -> Pull]
    /\ astray \in BOOLEAN

(* The rows that a node misses of its peer's, but for those that the peer  *)
(* wrote in the second its copy is dated with: http.TimeFormat has seconds *)
(* only, so these look like no modification.                               *)
Missed(n) == {r \in db[Peer(n)] \ db[n] : r[1] # mtime[n]}

(* Starts are numbered, and only the last starter may know the last        *)
(* number: what orders two databases.                                      *)
StartsOrdered ==
    /\ last = NoNode => starts = 0
    /\ last # NoNode => start[last] \in {0, starts}
    /\ \A n \in Node :
       /\ start[n] <= starts /\ peerHB[n].start <= starts
       /\ start[n] # 0 /\ start[n] = starts => last = n
       /\ peerHB[n].start # 0 /\ peerHB[n].start = starts => last = Peer(n)
       /\ peerHB[n].running => last # NoNode

(* Whoever trades was started last; a pull before a start holds the lease. *)
TurnsHeld ==
    /\ running => turn \in Node /\ last = turn /\ start[turn] # 0
    /\ \A n \in Node :
       /\ pull[n].before => turn = n /\ ~running
       /\ pull[n].phase \in Over => pull[n].before
       /\ pull[n].phase # "none" => ~(running /\ turn = n)

(* A fetch rests on a decision that was right, or on a memory or a         *)
(* heartbeat that was not.                                                 *)
FetchesJustified ==
    \A n \in Node :
        /\ pull[n].phase \in Fetching => last # NoNode
        /\ pull[n].phase \in Fetching /\ last = n =>
               astray /\ (start[n] = 0 \/ pull[n].outdated)
        /\ synced[n] => last # NoNode /\ (last = n => astray)
        /\ pull[n].phase = "refused" => ~Authoritative(n)

(* What a copy lacks was written between its date and the peer's.          *)
LaterThan(n, content, date) ==
    \A r \in db[Peer(n)] \ content : date <= r[1] /\ r[1] <= mtime[Peer(n)]

CopiesDated ==
    \A n \in Node :
        /\ mtime[n] <= second /\ pull[n].freshness <= second
        /\ last = Peer(n) /\ ~astray =>
           /\ synced[n] => LaterThan(n, db[n], mtime[n])
           /\ pull[n].phase = "copied" => LaterThan(n, pull[n].content, pull[n].freshness)
           /\ pull[n].phase = "copied" /\ pull[n].before => db[last] = pull[n].content
           /\ pull[n].phase = "fetched" => Missed(n) = {}

DbSyncInv == TypeOK /\ StartsOrdered /\ TurnsHeld /\ FetchesJustified /\ CopiesDated

(* "The source is the node whose trader started last": no pull takes rows  *)
(* from that node's database, unless its watchdog was restarted since      *)
(* (lastTraderStart is only in memory) or had seen its peer trade before.  *)
NewestKept ==
    [][\A n \in Node :
          last = n /\ ~(db[n] \subseteq db'[n]) => start[n] = 0 \/ pull[n].outdated]_vars

(* A node that takes over asks the one that traded last for its database,  *)
(* unless the other's watchdog was restarted, so that its heartbeat names  *)
(* no start, or has not been heard since that start.                       *)
TakeoverAsks ==
    [][\A n \in Node :
          last = Peer(n) /\ last' = n /\ pull[n].phase = "refused"
             => start[Peer(n)] = 0 \/ peerHB[n].start # start[Peer(n)]]_vars

(* When that fetch is answered, with a copy or with "not modified", every  *)
(* row of the node that traded last is there as the trader starts, but for *)
(* those of the second its copy is dated with.                             *)
TakeoverComplete ==
    [][\A n \in Node :
          last = Peer(n) /\ last' = n /\ pull[n].phase = "fetched"
             => Missed(n) = {} \/ astray]_vars

(* The two do not fetch from each other at once, which would only exchange *)
(* the newer database for the older.                                       *)
NoSwap ==
    (\A n \in Node : pull[n].phase \in Fetching) =>
        start[last] = 0 \/ \E n \in Node : pull[n].outdated

(* When traders are started no more, the other node gets every row in the  *)
(* end, with the same exceptions.                                          *)
Behind(n) == last = Peer(n) /\ start[last] # 0 /\ ~astray /\ Missed(n) # {}
PassiveCatchesUp == <>[](\A n \in Node : ~Behind(n))
=============================================================================
