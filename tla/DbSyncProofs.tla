----------------------------- MODULE DbSyncProofs -----------------------------
(***************************************************************************)
(* Proofs about DbSync, for every number of rows, starts, seconds and      *)
(* faults: DbSyncInv is inductive, and with it no pull takes rows from the *)
(* node that traded last, a takeover asks for its database and misses      *)
(* nothing of it -- each with the exceptions its property names.           *)
(***************************************************************************)
EXTENDS DbSync, FiniteSetTheorems, TLAPS

LEMMA PeerIsOther == ASSUME NEW n \in Node PROVE Peer(n) \in Node /\ Peer(n) # n
  <1>1. Cardinality(Node) = 2
    BY NodeAssumption
  <1>2. \E m \in Node : m # n
    <2>1. SUFFICES ASSUME \A m \in Node : m = n PROVE FALSE
      OBVIOUS
    <2>2. Node = {n}
      BY <2>1
    <2>3. Cardinality({n}) = 1
      BY FS_Singleton
    <2> QED BY <1>1, <2>2, <2>3
  <1> QED BY <1>2 DEF Peer

LEMMA OnlyTwo == ASSUME NEW n \in Node, NEW m \in Node PROVE m = n \/ m = Peer(n)
  <1>1. SUFFICES ASSUME m # n, m # Peer(n) PROVE FALSE
    OBVIOUS
  <1> DEFINE T == {n, Peer(n)}
  <1>2. Peer(n) \in Node /\ Peer(n) # n
    BY PeerIsOther
  <1>3. IsFiniteSet({n}) /\ Cardinality({n}) = 1
    BY FS_Singleton
  <1>4. IsFiniteSet(T) /\ Cardinality(T) = 2
    <2>1. T = {n} \cup {Peer(n)} /\ Peer(n) \notin {n}
      BY <1>2
    <2> QED BY <1>3, <2>1, FS_AddElement
  <1>5. Cardinality(T \cup {m}) = 3
    BY <1>1, <1>4, FS_AddElement
  <1>6. T \cup {m} \subseteq Node
    BY <1>2
  <1>7. Cardinality(Node) = 2 /\ IsFiniteSet(Node)
    BY NodeAssumption
  <1> QED BY <1>5, <1>6, <1>7, FS_Subset

LEMMA Peers ==
    \A n \in Node : /\ Peer(n) \in Node /\ Peer(n) # n /\ Peer(Peer(n)) = n
                    /\ \A m \in Node : m = n \/ m = Peer(n)
  BY PeerIsOther, OnlyTwo

LEMMA Bounds == /\ MaxSecond \in Nat /\ MaxRows \in Nat /\ MaxStarts \in Nat /\ MaxFaults \in Nat
                /\ NoNode \notin Node
  BY NodeAssumption, BoundAssumption

(***************************************************************************)
(* What a pull does first, and why it asks.                                *)
(***************************************************************************)
LEMMA AskAnswers ==
    ASSUME NEW n \in Node, NEW before \in BOOLEAN
    PROVE  LET ask == Ask(n, before)
           IN /\ ask.phase \in {"sampled", "refused", "failed", "fetched"}
              /\ ask.before = before
              /\ ask.phase = "refused" => ~Authoritative(n)
              /\ ask.phase = "fetched" => mtime[Peer(n)] # Never /\ NotModified(n)
              /\ ask.phase = "sampled" =>
                    /\ Authoritative(n)
                    /\ ask.freshness = mtime[Peer(n)]
                    /\ ask.outdated = (peerHB[n].running /\ ~(running /\ turn = Peer(n)))
  BY DEF Ask, NoPull

LEMMA AskedByKnown ==
    ASSUME DbSyncInv, NEW n \in Node, Authoritative(n) PROVE last # NoNode
  <1>1. peerHB[n].start \in Nat /\ start[n] \in Nat
    BY Bounds DEF DbSyncInv, TypeOK, Heartbeat
  <1> QED BY <1>1 DEF DbSyncInv, StartsOrdered, Authoritative

LEMMA AskedByLast ==
    ASSUME DbSyncInv, NEW n \in Node, Authoritative(n), last = n
    PROVE  start[n] = 0 \/ (peerHB[n].running /\ ~(running /\ turn = Peer(n)))
  <1>1. CASE peerHB[n].running
    BY <1>1, Peers DEF DbSyncInv, TurnsHeld
  <1>2. CASE ~peerHB[n].running /\ start[n] # 0
    <2>1. peerHB[n].start > start[n] /\ peerHB[n].start <= starts
      BY <1>2 DEF DbSyncInv, StartsOrdered, Authoritative
    <2>2. start[n] = starts
      BY <1>2, Bounds DEF DbSyncInv, StartsOrdered
    <2>3. peerHB[n].start \in Int /\ starts \in Int
      BY Bounds DEF DbSyncInv, TypeOK, Heartbeat
    <2> QED BY <2>1, <2>2, <2>3
  <1> QED BY <1>1, <1>2

-----------------------------------------------------------------------------
(***************************************************************************)
(* Every step keeps the invariant.                                         *)
(***************************************************************************)
LEMMA WriteKeeps == ASSUME DbSyncInv, NEW n \in Node, Write(n) PROVE DbSyncInv'
  <1> USE Peers, Bounds
  <1> USE DEF DbSyncInv, Write, bounds, files, memory
  <1>1. TypeOK'
    BY DEF TypeOK, Second, Row, Heartbeat, Pull, Phase, Fetching, Over, Never
  <1>2. StartsOrdered'
    BY DEF StartsOrdered, TypeOK, TurnsHeld, Second, Row, Heartbeat, Pull, Phase, Fetching, Over, Never
  <1>3. TurnsHeld'
    BY DEF TurnsHeld, TypeOK, Second, Row, Heartbeat, Pull, Phase, Fetching, Over, Never
  <1>4. FetchesJustified'
    BY DEF FetchesJustified, StartsOrdered, TurnsHeld, Authoritative, TypeOK, Second, Row, Heartbeat, Pull, Phase, Fetching, Over, Never
  <1>5. CopiesDated'
    BY DEF CopiesDated, LaterThan, Missed, FetchesJustified, TurnsHeld, TypeOK, Second, Row, Heartbeat, Pull, Phase, Fetching, Over, Never
  <1> QED BY <1>1, <1>2, <1>3, <1>4, <1>5

LEMMA StopKeeps == ASSUME DbSyncInv, NEW n \in Node, Stop(n) PROVE DbSyncInv'
  <1> USE Peers, Bounds
  <1> USE DEF DbSyncInv, Stop, bounds, files, memory
  <1>1. TypeOK'
    <2>1. PICK m \in {mtime[n], second} : mtime' = [mtime EXCEPT ![n] = m]
      OBVIOUS
    <2>2. m \in Second \cup {Never}
      BY DEF TypeOK
    <2>3. mtime' \in [Node -> Second \cup {Never}]
      BY <2>1, <2>2 DEF TypeOK
    <2> QED BY <2>3 DEF TypeOK
  <1>2. StartsOrdered'
    BY DEF StartsOrdered, TypeOK, TurnsHeld, Second, Row, Heartbeat, Pull, Phase, Fetching, Over, Never
  <1>3. TurnsHeld'
    BY DEF TurnsHeld, TypeOK, Second, Row, Heartbeat, Pull, Phase, Fetching, Over, Never
  <1>4. FetchesJustified'
    BY DEF FetchesJustified, StartsOrdered, TurnsHeld, Authoritative, TypeOK, Second, Row, Heartbeat, Pull, Phase, Fetching, Over, Never
  <1>5. CopiesDated'
    BY DEF CopiesDated, LaterThan, Missed, FetchesJustified, TurnsHeld, TypeOK, Second, Row, Heartbeat, Pull, Phase, Fetching, Over, Never
  <1> QED BY <1>1, <1>2, <1>3, <1>4, <1>5

LEMMA StartTraderKeeps == ASSUME DbSyncInv, NEW n \in Node, StartTrader(n) PROVE DbSyncInv'
  <1> USE Peers, Bounds
  <1> USE DEF DbSyncInv, StartTrader, NoPull, bounds, files, memory
  <1>1. TypeOK'
    BY DEF TypeOK, Second, Row, Heartbeat, Pull, Phase, Fetching, Over, Never
  <1>2. StartsOrdered'
    BY DEF StartsOrdered, TypeOK, TurnsHeld, Second, Row, Heartbeat, Pull, Phase, Fetching, Over, Never
  <1>3. TurnsHeld'
    BY DEF TurnsHeld, TypeOK, Second, Row, Heartbeat, Pull, Phase, Fetching, Over, Never
  <1>4. FetchesJustified'
    BY DEF FetchesJustified, StartsOrdered, TurnsHeld, Authoritative, TypeOK, Second, Row, Heartbeat, Pull, Phase, Fetching, Over, Never
  <1>5. CopiesDated'
    BY DEF CopiesDated, LaterThan, Missed, FetchesJustified, TurnsHeld, TypeOK, Second, Row, Heartbeat, Pull, Phase, Fetching, Over, Never
  <1> QED BY <1>1, <1>2, <1>3, <1>4, <1>5

LEMMA StartFailsKeeps == ASSUME DbSyncInv, NEW n \in Node, StartFails(n) PROVE DbSyncInv'
  <1> USE Peers, Bounds
  <1> USE DEF DbSyncInv, StartFails, NoPull, bounds, files, memory
  <1>1. TypeOK'
    BY DEF TypeOK, Second, Row, Heartbeat, Pull, Phase, Fetching, Over, Never
  <1>2. StartsOrdered'
    BY DEF StartsOrdered, TypeOK, TurnsHeld, Second, Row, Heartbeat, Pull, Phase, Fetching, Over, Never
  <1>3. TurnsHeld'
    BY DEF TurnsHeld, TypeOK, Second, Row, Heartbeat, Pull, Phase, Fetching, Over, Never
  <1>4. FetchesJustified'
    BY DEF FetchesJustified, StartsOrdered, TurnsHeld, Authoritative, TypeOK, Second, Row, Heartbeat, Pull, Phase, Fetching, Over, Never
  <1>5. CopiesDated'
    BY DEF CopiesDated, LaterThan, Missed, FetchesJustified, TurnsHeld, TypeOK, Second, Row, Heartbeat, Pull, Phase, Fetching, Over, Never
  <1> QED BY <1>1, <1>2, <1>3, <1>4, <1>5

LEMMA SeeKeeps == ASSUME DbSyncInv, NEW n \in Node, See(n) PROVE DbSyncInv'
  <1> USE Peers, Bounds
  <1> USE DEF DbSyncInv, See, bounds, files, memory
  <1>1. TypeOK'
    BY DEF TypeOK, Second, Row, Heartbeat, Pull, Phase, Fetching, Over, Never
  <1>2. StartsOrdered'
    BY DEF StartsOrdered, TypeOK, TurnsHeld, Second, Row, Heartbeat, Pull, Phase, Fetching, Over, Never
  <1>3. TurnsHeld'
    BY DEF TurnsHeld, TypeOK, Second, Row, Heartbeat, Pull, Phase, Fetching, Over, Never
  <1>4. FetchesJustified'
    BY DEF FetchesJustified, StartsOrdered, TurnsHeld, Authoritative, TypeOK, Second, Row, Heartbeat, Pull, Phase, Fetching, Over, Never
  <1>5. CopiesDated'
    BY DEF CopiesDated, LaterThan, Missed, FetchesJustified, TurnsHeld, TypeOK, Second, Row, Heartbeat, Pull, Phase, Fetching, Over, Never
  <1> QED BY <1>1, <1>2, <1>3, <1>4, <1>5

LEMMA CopyKeeps == ASSUME DbSyncInv, NEW n \in Node, Copy(n) PROVE DbSyncInv'
  <1> USE Peers, Bounds
  <1> USE DEF DbSyncInv, Copy, bounds, files, memory
  <1>1. TypeOK'
    <2> DEFINE copied == [pull[n] EXCEPT !.phase = "copied", !.content = db[Peer(n)]]
    <2>1. pull[n] \in Pull /\ db[Peer(n)] \in SUBSET Row
      BY DEF TypeOK
    <2>2. copied \in Pull
      BY <2>1 DEF Pull, Phase, Fetching
    <2>3. pull' = [pull EXCEPT ![n] = copied]
      BY <2>1 DEF Pull, TypeOK
    <2>4. pull' \in [Node -> Pull]
      BY <2>2, <2>3 DEF TypeOK
    <2> QED BY <2>4 DEF TypeOK
  <1>2. StartsOrdered'
    BY DEF StartsOrdered, TypeOK, TurnsHeld, Second, Row, Heartbeat, Pull, Phase, Fetching, Over, Never
  <1>3. TurnsHeld'
    BY DEF TurnsHeld, TypeOK, Second, Row, Heartbeat, Pull, Phase, Fetching, Over, Never
  <1>4. FetchesJustified'
    BY DEF FetchesJustified, StartsOrdered, TurnsHeld, Authoritative, TypeOK, Second, Row, Heartbeat, Pull, Phase, Fetching, Over, Never
  <1>5. CopiesDated'
    BY DEF CopiesDated, LaterThan, Missed, FetchesJustified, TurnsHeld, TypeOK, Second, Row, Heartbeat, Pull, Phase, Fetching, Over, Never
  <1> QED BY <1>1, <1>2, <1>3, <1>4, <1>5

LEMMA ReplaceKeeps == ASSUME DbSyncInv, NEW n \in Node, Replace(n) PROVE DbSyncInv'
  <1> USE Peers, Bounds
  <1> USE DEF DbSyncInv, Replace, Ended, NoPull, bounds, files, memory
  <1>1. TypeOK'
    BY DEF TypeOK, Second, Row, Heartbeat, Pull, Phase, Fetching, Over, Never
  <1>2. StartsOrdered'
    BY DEF StartsOrdered, TypeOK, TurnsHeld, Second, Row, Heartbeat, Pull, Phase, Fetching, Over, Never
  <1>3. TurnsHeld'
    BY DEF TurnsHeld, TypeOK, Second, Row, Heartbeat, Pull, Phase, Fetching, Over, Never
  <1>4. FetchesJustified'
    BY DEF FetchesJustified, StartsOrdered, TurnsHeld, Authoritative, TypeOK, Second, Row, Heartbeat, Pull, Phase, Fetching, Over, Never
  <1>5. CopiesDated'
    BY DEF CopiesDated, LaterThan, Missed, FetchesJustified, TurnsHeld, TypeOK, Second, Row, Heartbeat, Pull, Phase, Fetching, Over, Never
  <1> QED BY <1>1, <1>2, <1>3, <1>4, <1>5

LEMMA PullFailsKeeps == ASSUME DbSyncInv, NEW n \in Node, PullFails(n) PROVE DbSyncInv'
  <1> USE Peers, Bounds
  <1> USE DEF DbSyncInv, PullFails, Ended, NoPull, bounds, files, memory
  <1>1. TypeOK'
    BY DEF TypeOK, Second, Row, Heartbeat, Pull, Phase, Fetching, Over, Never
  <1>2. StartsOrdered'
    BY DEF StartsOrdered, TypeOK, TurnsHeld, Second, Row, Heartbeat, Pull, Phase, Fetching, Over, Never
  <1>3. TurnsHeld'
    BY DEF TurnsHeld, TypeOK, Second, Row, Heartbeat, Pull, Phase, Fetching, Over, Never
  <1>4. FetchesJustified'
    BY DEF FetchesJustified, StartsOrdered, TurnsHeld, Authoritative, TypeOK, Second, Row, Heartbeat, Pull, Phase, Fetching, Over, Never
  <1>5. CopiesDated'
    BY DEF CopiesDated, LaterThan, Missed, FetchesJustified, TurnsHeld, TypeOK, Second, Row, Heartbeat, Pull, Phase, Fetching, Over, Never
  <1> QED BY <1>1, <1>2, <1>3, <1>4, <1>5

LEMMA RestartKeeps == ASSUME DbSyncInv, NEW n \in Node, Restart(n) PROVE DbSyncInv'
  <1> USE Peers, Bounds
  <1> USE DEF DbSyncInv, Restart, Ended, NoPull, Unseen, bounds, files, memory
  <1>1. TypeOK'
    <2>1. NoPull \in Pull
      BY DEF Pull, Phase, Never
    <2>2. \A m \in Node : Ended(m, "failed") \in Pull
      BY <2>1 DEF Pull, Phase, Over
    <2>3. pull' \in [Node -> Pull]
      BY <2>1, <2>2 DEF TypeOK
    <2>4. peerHB' \in [Node -> Heartbeat] /\ start' \in [Node -> 0 .. MaxStarts]
      BY DEF TypeOK, Heartbeat
    <2>5. turn' \in Node \cup {NoNode} /\ running' \in BOOLEAN
      BY DEF TypeOK
    <2>6. synced' \in [Node -> BOOLEAN] /\ faults' \in 0 .. MaxFaults
      BY DEF TypeOK
    <2> QED BY <2>3, <2>4, <2>5, <2>6 DEF TypeOK
  <1>2. StartsOrdered'
    BY DEF StartsOrdered, TypeOK, TurnsHeld, Second, Row, Heartbeat, Pull, Phase, Fetching, Over, Never
  <1>3. TurnsHeld'
    BY DEF TurnsHeld, TypeOK, Second, Row, Heartbeat, Pull, Phase, Fetching, Over, Never
  <1>4. FetchesJustified'
    BY DEF FetchesJustified, StartsOrdered, TurnsHeld, Authoritative, TypeOK, Second, Row, Heartbeat, Pull, Phase, Fetching, Over, Never
  <1>5. CopiesDated'
    BY DEF CopiesDated, LaterThan, Missed, FetchesJustified, TurnsHeld, TypeOK, Second, Row, Heartbeat, Pull, Phase, Fetching, Over, Never
  <1> QED BY <1>1, <1>2, <1>3, <1>4, <1>5

LEMMA PullBeforeKeeps == ASSUME DbSyncInv, NEW n \in Node, PullBefore(n) PROVE DbSyncInv'
  <1> USE Peers, Bounds
  <1> USE DEF DbSyncInv, PullBefore, Pulls, Ask, NoPull, Idle, NotModified, Since, bounds, files, memory
  <1>1. TypeOK'
    BY DEF TypeOK, Second, Row, Heartbeat, Pull, Phase, Fetching, Over, Never
  <1>2. StartsOrdered'
    BY DEF StartsOrdered, TypeOK, TurnsHeld, Second, Row, Heartbeat, Pull, Phase, Fetching, Over, Never
  <1>3. TurnsHeld'
    BY DEF TurnsHeld, TypeOK, Second, Row, Heartbeat, Pull, Phase, Fetching, Over, Never
  <1>4. FetchesJustified'
    <2> HIDE DEF Ask
    <2> DEFINE ask == Ask(n, TRUE)
    <2>1. /\ ask.phase \in {"sampled", "refused", "failed", "fetched"}
          /\ ask.phase = "refused" => ~Authoritative(n)
          /\ ask.phase = "sampled" => Authoritative(n)
          /\ ask.phase = "sampled" =>
                ask.outdated = (peerHB[n].running /\ ~(running /\ turn = Peer(n)))
      BY AskAnswers
    <2>2. Authoritative(n) => last # NoNode
      BY AskedByKnown
    <2>3. Authoritative(n) /\ last = n =>
              start[n] = 0 \/ (peerHB[n].running /\ ~(running /\ turn = Peer(n)))
      BY AskedByLast
    <2>4. \A m \in Node : pull'[m] = IF m = n THEN ask ELSE pull[m]
      BY DEF TypeOK
    <2>5. \A m \in Node : Authoritative(m)' = Authoritative(m)
      BY DEF Authoritative
    <2> HIDE DEF ask
    <2>6. astray' = (astray \/ (last = n /\ Authoritative(n)))
      OBVIOUS
    <2>7. FetchesJustified
      OBVIOUS
    <2>8. last' = last /\ start' = start /\ synced' = synced
      OBVIOUS
    <2> HIDE DEF DbSyncInv, PullBefore
    <2>9. ASSUME NEW m \in Node
          PROVE  /\ pull'[m].phase \in Fetching => last # NoNode
                 /\ pull'[m].phase \in Fetching /\ last = m =>
                        astray' /\ (start[m] = 0 \/ pull'[m].outdated)
                 /\ synced[m] => last # NoNode /\ (last = m => astray')
                 /\ pull'[m].phase = "refused" => ~Authoritative(m)
      <3>1. CASE m = n
        BY <2>1, <2>2, <2>3, <2>4, <2>6, <2>7, <3>1 DEF FetchesJustified, Fetching
      <3>2. CASE m # n
        BY <2>4, <2>6, <2>7, <3>2 DEF FetchesJustified
      <3> QED BY <3>1, <3>2
    <2> QED BY <2>5, <2>8, <2>9 DEF FetchesJustified
  <1>5. CopiesDated'
    <2> HIDE DEF Ask, NotModified, Since
    <2> DEFINE ask == Ask(n, TRUE)
    <2>1. /\ ask.phase \in {"sampled", "refused", "failed", "fetched"}
          /\ ask.phase = "fetched" => mtime[Peer(n)] # Never /\ NotModified(n)
          /\ ask.phase = "sampled" => ask.freshness = mtime[Peer(n)]
      BY AskAnswers
    <2>2. \A m \in Node : pull'[m] = IF m = n THEN ask ELSE pull[m]
      BY DEF TypeOK
    <2>3. ask.freshness <= second
      <3>1. second \in Nat /\ Never <= second
        BY DEF TypeOK, Second, Never
      <3>2. mtime[Peer(n)] <= second
        BY DEF CopiesDated
      <3>3. ask.phase # "sampled" => ask.freshness = Never
        BY DEF Ask
      <3> QED BY <2>1, <3>1, <3>2, <3>3
    <2>4. ASSUME ask.phase = "fetched", last = Peer(n), ~astray PROVE Missed(n) = {}
      <3>1. mtime[Peer(n)] \in Second /\ mtime[n] \in Second \cup {Never}
        BY <2>1, <2>4 DEF TypeOK
      <3>2. synced[n] /\ mtime[Peer(n)] <= mtime[n]
        <4>1. synced[n] \in BOOLEAN
          BY DEF TypeOK
        <4>2. mtime[Peer(n)] <= Since(n) /\ mtime[Peer(n)] \in Second
          BY <2>1, <2>4, <3>1 DEF NotModified
        <4>3. CASE ~synced[n]
          BY <4>2, <4>3 DEF Since, Never, Second
        <4> QED BY <4>1, <4>2, <4>3 DEF Since
      <3>3. LaterThan(n, db[n], mtime[n])
        BY <2>4, <3>2 DEF CopiesDated
      <3>4. \A r \in db[Peer(n)] : r[1] \in Second
        BY DEF TypeOK, Row
      <3> QED BY <3>1, <3>2, <3>3, <3>4 DEF LaterThan, Missed, Second, Never
    <2>5. \A m \in Node : Missed(m)' = Missed(m)
      BY DEF Missed
    <2>6. UNCHANGED <<db, mtime, second, last, synced>>
      OBVIOUS
    <2>7. ~astray' => ~astray
      OBVIOUS
    <2>8. CopiesDated
      OBVIOUS
    <2> HIDE DEF ask, DbSyncInv, PullBefore
    <2>9. ASSUME NEW m \in Node
          PROVE  /\ mtime[m] <= second /\ pull'[m].freshness <= second
                 /\ last = Peer(m) /\ ~astray' =>
                    /\ synced[m] => LaterThan(m, db[m], mtime[m])
                    /\ pull'[m].phase = "copied" =>
                           LaterThan(m, pull'[m].content, pull'[m].freshness)
                    /\ pull'[m].phase = "copied" /\ pull'[m].before => db[last] = pull'[m].content
                    /\ pull'[m].phase = "fetched" => Missed(m) = {}
      <3>1. CASE m = n
        BY <2>1, <2>2, <2>3, <2>4, <2>7, <2>8, <3>1 DEF CopiesDated
      <3>2. CASE m # n
        BY <2>2, <2>7, <2>8, <3>2 DEF CopiesDated
      <3> QED BY <3>1, <3>2
    <2> QED BY <2>5, <2>6, <2>9 DEF CopiesDated, LaterThan
  <1> QED BY <1>1, <1>2, <1>3, <1>4, <1>5

LEMMA PullPassiveKeeps == ASSUME DbSyncInv, NEW n \in Node, PullPassive(n) PROVE DbSyncInv'
  <1> USE Peers, Bounds
  <1> USE DEF DbSyncInv, PullPassive, Pulls, Ask, NoPull, Idle, NotModified, Since, bounds, files, memory
  <1>1. TypeOK'
    BY DEF TypeOK, Second, Row, Heartbeat, Pull, Phase, Fetching, Over, Never
  <1>2. StartsOrdered'
    BY DEF StartsOrdered, TypeOK, TurnsHeld, Second, Row, Heartbeat, Pull, Phase, Fetching, Over, Never
  <1>3. TurnsHeld'
    BY DEF TurnsHeld, TypeOK, Second, Row, Heartbeat, Pull, Phase, Fetching, Over, Never
  <1>4. FetchesJustified'
    <2> HIDE DEF Ask
    <2> DEFINE ask == Ask(n, FALSE)
    <2>1. /\ ask.phase \in {"sampled", "refused", "failed", "fetched"}
          /\ ask.phase = "refused" => ~Authoritative(n)
          /\ ask.phase = "sampled" => Authoritative(n)
          /\ ask.phase = "sampled" =>
                ask.outdated = (peerHB[n].running /\ ~(running /\ turn = Peer(n)))
      BY AskAnswers
    <2>2. Authoritative(n) => last # NoNode
      BY AskedByKnown
    <2>3. Authoritative(n) /\ last = n =>
              start[n] = 0 \/ (peerHB[n].running /\ ~(running /\ turn = Peer(n)))
      BY AskedByLast
    <2>4. \A m \in Node : pull'[m] = IF m = n THEN ask ELSE pull[m]
      BY DEF TypeOK
    <2>5. \A m \in Node : Authoritative(m)' = Authoritative(m)
      BY DEF Authoritative
    <2> HIDE DEF ask
    <2>6. astray' = (astray \/ (last = n /\ Authoritative(n)))
      OBVIOUS
    <2>7. FetchesJustified
      OBVIOUS
    <2>8. last' = last /\ start' = start /\ synced' = synced
      OBVIOUS
    <2> HIDE DEF DbSyncInv, PullPassive
    <2>9. ASSUME NEW m \in Node
          PROVE  /\ pull'[m].phase \in Fetching => last # NoNode
                 /\ pull'[m].phase \in Fetching /\ last = m =>
                        astray' /\ (start[m] = 0 \/ pull'[m].outdated)
                 /\ synced[m] => last # NoNode /\ (last = m => astray')
                 /\ pull'[m].phase = "refused" => ~Authoritative(m)
      <3>1. CASE m = n
        BY <2>1, <2>2, <2>3, <2>4, <2>6, <2>7, <3>1 DEF FetchesJustified, Fetching
      <3>2. CASE m # n
        BY <2>4, <2>6, <2>7, <3>2 DEF FetchesJustified
      <3> QED BY <3>1, <3>2
    <2> QED BY <2>5, <2>8, <2>9 DEF FetchesJustified
  <1>5. CopiesDated'
    BY DEF CopiesDated, LaterThan, Missed, FetchesJustified, TurnsHeld, TypeOK, Second, Row, Heartbeat, Pull, Phase, Fetching, Over, Never
  <1> QED BY <1>1, <1>2, <1>3, <1>4, <1>5

LEMMA TickKeeps == ASSUME DbSyncInv, Tick PROVE DbSyncInv'
  <1> USE Peers, Bounds
  <1> USE DEF DbSyncInv, Tick, bounds, files, memory
  <1>1. TypeOK'
    BY DEF TypeOK, Second, Row, Heartbeat, Pull, Phase, Fetching, Over, Never
  <1>2. StartsOrdered'
    BY DEF StartsOrdered, TypeOK, TurnsHeld, Second, Row, Heartbeat, Pull, Phase, Fetching, Over, Never
  <1>3. TurnsHeld'
    BY DEF TurnsHeld, TypeOK, Second, Row, Heartbeat, Pull, Phase, Fetching, Over, Never
  <1>4. FetchesJustified'
    BY DEF FetchesJustified, StartsOrdered, TurnsHeld, Authoritative, TypeOK, Second, Row, Heartbeat, Pull, Phase, Fetching, Over, Never
  <1>5. CopiesDated'
    BY DEF CopiesDated, LaterThan, Missed, FetchesJustified, TurnsHeld, TypeOK, Second, Row, Heartbeat, Pull, Phase, Fetching, Over, Never
  <1> QED BY <1>1, <1>2, <1>3, <1>4, <1>5

-----------------------------------------------------------------------------
(* The invariant holds initially, and every step keeps it. *)
LEMMA InitInv == Init => DbSyncInv
  <1> SUFFICES ASSUME Init PROVE DbSyncInv
    OBVIOUS
  <1> USE Peers, Bounds
  <1>1. TypeOK
    <2>1. NoPull \in Pull
      BY DEF NoPull, Pull, Phase, Never
    <2>2. Unseen \in Heartbeat
      BY DEF Unseen, Heartbeat
    <2>3. 0 \in Second
      BY DEF Second
    <2>4. pull \in [Node -> Pull] /\ peerHB \in [Node -> Heartbeat]
      BY <2>1, <2>2 DEF Init
    <2>5. second \in Second /\ mtime \in [Node -> Second \cup {Never}]
      BY <2>3 DEF Init
    <2>6. db \in [Node -> SUBSET Row] /\ synced \in [Node -> BOOLEAN]
      BY DEF Init
    <2>7. start \in [Node -> 0 .. MaxStarts] /\ rows \in 0 .. MaxRows
          /\ starts \in 0 .. MaxStarts /\ faults \in 0 .. MaxFaults
      BY DEF Init
    <2>8. turn \in Node \cup {NoNode} /\ last \in Node \cup {NoNode}
          /\ running \in BOOLEAN /\ astray \in BOOLEAN
      BY DEF Init
    <2> QED BY <2>4, <2>5, <2>6, <2>7, <2>8 DEF TypeOK
  <1>2. StartsOrdered /\ TurnsHeld
    BY DEF Init, StartsOrdered, TurnsHeld, Unseen, NoPull, Over
  <1>3. FetchesJustified
    BY DEF Init, FetchesJustified, NoPull, Fetching
  <1>4. CopiesDated
    BY DEF Init, CopiesDated, NoPull, Never
  <1> QED BY <1>1, <1>2, <1>3, <1>4 DEF DbSyncInv

LEMMA StepInv == DbSyncInv /\ [Next]_vars => DbSyncInv'
  <1> SUFFICES ASSUME DbSyncInv, [Next]_vars PROVE DbSyncInv'
    OBVIOUS
  <1>1. CASE Tick
    BY <1>1, TickKeeps
  <1>2. ASSUME NEW n \in Node,
               \/ Write(n) \/ Stop(n) \/ StartTrader(n) \/ StartFails(n) \/ See(n)
               \/ PullBefore(n) \/ PullPassive(n) \/ Copy(n) \/ Replace(n)
               \/ PullFails(n) \/ Restart(n)
        PROVE  DbSyncInv'
    BY <1>2, WriteKeeps, StopKeeps, StartTraderKeeps, StartFailsKeeps, SeeKeeps,
       PullBeforeKeeps, PullPassiveKeeps, CopyKeeps, ReplaceKeeps, PullFailsKeeps, RestartKeeps
  <1>3. CASE UNCHANGED vars
    BY <1>3 DEF vars, bounds, files, memory, DbSyncInv, TypeOK, StartsOrdered, TurnsHeld,
       FetchesJustified, CopiesDated, LaterThan, Missed, Authoritative
  <1> QED BY <1>1, <1>2, <1>3 DEF Next

(***************************************************************************)
(* What the project relies on, in every reachable state: starts are        *)
(* ordered, decisions to fetch are justified and copies rightly dated.     *)
(***************************************************************************)
THEOREM SyncIsOrdered == Spec => []DbSyncInv
  <1>1. DbSyncInv /\ [Next]_vars => DbSyncInv'
    BY StepInv
  <1> QED BY InitInv, <1>1, PTL DEF Spec

(* The two watchdogs do not exchange their databases, but for a restart or *)
(* an old heartbeat (peerAuthoritativeLocked).                             *)
THEOREM DatabasesAreNotSwapped == Spec => []NoSwap
  <1>1. DbSyncInv => NoSwap
    <2>1. SUFFICES ASSUME DbSyncInv, \A n \in Node : pull[n].phase \in Fetching
                   PROVE  start[last] = 0 \/ \E n \in Node : pull[n].outdated
      BY DEF NoSwap
    <2>2. PICK m \in Node : TRUE
      <3>1. Node # {}
        BY NodeAssumption, FS_EmptySet
      <3> QED BY <3>1
    <2>3. last \in Node
      BY <2>1, <2>2 DEF DbSyncInv, FetchesJustified, TypeOK
    <2> QED BY <2>1, <2>3 DEF DbSyncInv, FetchesJustified
  <1> QED BY <1>1, SyncIsOrdered, PTL

(* A pull takes no rows from the node whose trader was started last, but   *)
(* for a restart or an old heartbeat (pullDB).                             *)
THEOREM NewestIsKept == Spec => NewestKept
  <1>1. DbSyncInv /\ [Next]_vars =>
            [\A n \in Node : last = n /\ ~(db[n] \subseteq db'[n])
                => start[n] = 0 \/ pull[n].outdated]_vars
    <2> SUFFICES ASSUME DbSyncInv, [Next]_vars, NEW n \in Node,
                        last = n, ~(db[n] \subseteq db'[n])
                 PROVE  start[n] = 0 \/ pull[n].outdated
      OBVIOUS
    <2>1. db' # db
      OBVIOUS
    <2>2. PICK m \in Node : Write(m) \/ Replace(m)
      BY <2>1 DEF Next, vars, bounds, files, memory, Tick, Stop, StartTrader, StartFails, See,
         PullBefore, PullPassive, Pulls, Copy, PullFails, Restart
    <2>3. db \in [Node -> SUBSET Row]
      BY DEF DbSyncInv, TypeOK
    <2>4. CASE Write(m)
      BY <2>3, <2>4 DEF Write
    <2>5. CASE Replace(m)
      <3>1. m = n
        BY <2>3, <2>5 DEF Replace
      <3>2. pull[n].phase = "copied"
        BY <2>5, <3>1 DEF Replace
      <3> QED BY <3>2 DEF DbSyncInv, FetchesJustified, Fetching
    <2> QED BY <2>2, <2>4, <2>5
  <1> QED BY <1>1, SyncIsOrdered, PTL DEF Spec, NewestKept

(* The step that makes another node the last to trade is its start.        *)
LEMMA Takeover ==
    ASSUME [Next]_vars, DbSyncInv, NEW n \in Node, last # n, last' = n
    PROVE  StartTrader(n)
  <1>1. last' # last
    OBVIOUS
  <1>2. PICK m \in Node : StartTrader(m)
    BY <1>1 DEF Next, vars, bounds, files, memory, Tick, Write, Stop, StartFails, See,
       PullBefore, PullPassive, Pulls, Copy, Replace, PullFails, Restart
  <1> QED BY <1>2 DEF StartTrader

(* Whoever takes over has asked the node that traded last, unless that     *)
(* one's heartbeat did not tell (startTrader, peerAuthoritativeLocked).    *)
THEOREM TakeoversAsk == Spec => TakeoverAsks
  <1>1. DbSyncInv /\ [Next]_vars =>
            [\A n \in Node : last = Peer(n) /\ last' = n /\ pull[n].phase = "refused"
                => start[Peer(n)] = 0 \/ peerHB[n].start # start[Peer(n)]]_vars
    <2> SUFFICES ASSUME DbSyncInv, [Next]_vars, NEW n \in Node,
                        last = Peer(n), last' = n, pull[n].phase = "refused",
                        start[Peer(n)] # 0, peerHB[n].start = start[Peer(n)]
                 PROVE  FALSE
      OBVIOUS
    <2>1. ~Authoritative(n)
      BY DEF DbSyncInv, FetchesJustified
    <2>2. start[n] \in Nat /\ peerHB[n].start \in Nat /\ starts \in Nat
      BY Bounds DEF DbSyncInv, TypeOK, Heartbeat
    <2>3. start[Peer(n)] = starts /\ start[n] <= starts
      BY Peers, Bounds DEF DbSyncInv, StartsOrdered
    <2>4. start[n] # starts
      BY <2>2, <2>3, Peers DEF DbSyncInv, StartsOrdered
    <2> QED BY <2>1, <2>2, <2>3, <2>4 DEF Authoritative
  <1> QED BY <1>1, SyncIsOrdered, PTL DEF Spec, TakeoverAsks

(* And when it was answered, it starts with every row, but for those of    *)
(* the second its copy is dated with (FetchDB, handleDB).                  *)
THEOREM TakeoversAreComplete == Spec => TakeoverComplete
  <1>1. DbSyncInv /\ [Next]_vars =>
            [\A n \in Node : last = Peer(n) /\ last' = n /\ pull[n].phase = "fetched"
                => Missed(n) = {} \/ astray]_vars
    BY DEF DbSyncInv, CopiesDated
  <1> QED BY <1>1, SyncIsOrdered, PTL DEF Spec, TakeoverComplete
=============================================================================
