----------------------------- MODULE BrowserProofs -----------------------------
(* Proofs about BrowserLoad and BrowserMetadata, which share no state: for any      *)
(* browser, tracks, devices and requests, and for any files, listings, budgets and  *)
(* bounds.  The inductive invariant of a load says at every phase what is to be      *)
(* restored and what the chain was, so that each way out restores it; that a name    *)
(* cannot tell equal neighbours apart is a fact about sequences (SameNeighbours).    *)
EXTENDS BrowserLoad, BrowserMetadata, SequenceLemmas

Unprepared == {"check", "select", "anchor", "mode", "load"}
Loading == {"insert", "loaded", "raised"}
BeforeInsert == Unprepared \cup {"count", "insert"}

LoadTypeInv ==
    /\ LoadTypeOK
    /\ chainBefore \in Seq(Devices)
    /\ loadPc # "idle" => load \in LoadRequests
    /\ loadPc \notin {"idle", "check"} => load.mode # "bad" /\ (Beside => load.anchor >= 0)
    /\ loadPc \in {"anchor", "mode", "count"} => Positioned
    /\ loadPc = "load" => ~Positioned

\* The insert modes are those of before, but for that of the track between setting
\* and restoring it, when previous has it.
ModeInv ==
    /\ loadPc \in Unprepared => insertMode = modeBefore
    /\ loadPc \in {"check", "select", "anchor", "load"} => previous = None
    /\ loadPc \in {"mode", "count"} => previous = modeBefore[load.track]
    /\ loadPc = "count" \/ (loadPc \in Loading /\ Positioned) =>
          /\ previous = modeBefore[load.track]
          /\ insertMode = [modeBefore EXCEPT ![load.track] = InsertModeValue(load.mode)]
    /\ loadPc \in Loading /\ ~Positioned => previous = None /\ insertMode = modeBefore
    /\ loadPc = "report" /\ ~stuck => insertMode = modeBefore

\* The chain is that of before, then has one more where the request has asked for it,
\* or as many as before.
ChainInv ==
    /\ loadPc \in BeforeInsert /\ load.track \in TrackIds => devices[load.track] = chainBefore
    /\ loadPc \in {"anchor", "load"} => selectedDevice = None
    /\ loadPc \in {"mode", "count", "insert"} =>
          IF Beside THEN selectedDevice = load.anchor /\ load.anchor < Len(chainBefore) ELSE selectedDevice = None
    /\ loadPc \in {"loaded", "raised", "report"} =>
          \/ Len(devices[load.track]) = Len(chainBefore)
          \/ /\ Asked + 1 \in 1 .. Len(chainBefore) + 1
             /\ \E d \in Devices : devices[load.track] = InsertAt(chainBefore, Asked + 1, d)

LoadIInv == LoadTypeInv /\ ModeInv /\ ChainInv
------------------------------------------------------------
(* Sequences.                                                                     *)

\* What a chain holds after an insertion.
LEMMA InsertProperties ==
    ASSUME NEW S, NEW c \in Seq(S), NEW d \in S, NEW p \in 1 .. Len(c) + 1
    PROVE  /\ InsertAt(c, p, d) \in Seq(S)
           /\ Len(InsertAt(c, p, d)) = Len(c) + 1
           /\ \A i \in 1 .. Len(c) + 1 :
                 InsertAt(c, p, d)[i] = IF i < p THEN c[i] ELSE IF i = p THEN d ELSE c[i - 1]
<1> DEFINE a == SubSeq(c, 1, p - 1)
           z == SubSeq(c, p, Len(c))
<1>1. Len(c) \in Nat /\ \A i \in 1 .. Len(c) : c[i] \in S
    BY ElementOfSeq, LenProperties
<1>2. /\ a \in Seq(S)
      /\ Len(a) = p - 1
      /\ \A i \in 1 .. p - 1 : a[i] = c[i]
    <2>1. p - 1 \in Int /\ 1 \in Int /\ \A i \in 1 .. p - 1 : c[i] \in S
        BY <1>1
    <2>2. /\ a \in Seq(S)
          /\ Len(a) = IF 1 <= p - 1 THEN p - 1 - 1 + 1 ELSE 0
          /\ \A i \in 1 .. p - 1 - 1 + 1 : a[i] = c[1 + i - 1]
        BY <2>1, SubSeqProperties
    <2> QED
        BY <2>2, <1>1
<1>3. /\ z \in Seq(S)
      /\ Len(z) = Len(c) - p + 1
      /\ \A i \in 1 .. Len(c) - p + 1 : z[i] = c[p + i - 1]
    <2>1. p \in Int /\ Len(c) \in Int /\ \A i \in p .. Len(c) : c[i] \in S
        BY <1>1
    <2>2. /\ z \in Seq(S)
          /\ Len(z) = IF p <= Len(c) THEN Len(c) - p + 1 ELSE 0
          /\ \A i \in 1 .. Len(c) - p + 1 : z[i] = c[p + i - 1]
        BY <2>1, SubSeqProperties
    <2> QED
        BY <2>2, <1>1
<1> HIDE DEF a, z
<1>4. <<d>> \in Seq(S) /\ Len(<<d>>) = 1 /\ <<d>>[1] = d
    OBVIOUS
<1> DEFINE b == a \o <<d>>
<1>5. /\ b \in Seq(S)
      /\ Len(b) = p
      /\ \A i \in 1 .. p : b[i] = IF i <= p - 1 THEN c[i] ELSE d
    <2>1. /\ b \in Seq(S)
          /\ Len(b) = Len(a) + Len(<<d>>)
          /\ \A i \in 1 .. Len(a) + Len(<<d>>) : b[i] = IF i <= Len(a) THEN a[i] ELSE <<d>>[i - Len(a)]
        BY <1>2, <1>4, ConcatProperties
    <2>2. Len(a) + Len(<<d>>) = p /\ Len(a) = p - 1
        BY <1>1, <1>2, <1>4
    <2>3. \A i \in 1 .. p : ~(i <= p - 1) => <<d>>[i - (p - 1)] = d
        BY <1>1, <1>4
    <2> QED
        BY <2>1, <2>2, <2>3, <1>2
<1> HIDE DEF b
<1>6. /\ b \o z \in Seq(S)
      /\ Len(b \o z) = Len(c) + 1
      /\ \A i \in 1 .. Len(c) + 1 : (b \o z)[i] = IF i <= p THEN b[i] ELSE z[i - p]
    <2>1. /\ b \o z \in Seq(S)
          /\ Len(b \o z) = Len(b) + Len(z)
          /\ \A i \in 1 .. Len(b) + Len(z) : (b \o z)[i] = IF i <= Len(b) THEN b[i] ELSE z[i - Len(b)]
        BY <1>5, <1>3, ConcatProperties
    <2> QED
        BY <2>1, <1>1, <1>3, <1>5
<1>7. InsertAt(c, p, d) = b \o z
    BY DEF InsertAt, a, b, z
<1>8. \A i \in 1 .. Len(c) + 1 : (b \o z)[i] = IF i < p THEN c[i] ELSE IF i = p THEN d ELSE c[i - 1]
    <2> TAKE i \in 1 .. Len(c) + 1
    <2>1. CASE i <= p
        <3>1. (b \o z)[i] = b[i]
            BY <2>1, <1>6
        <3>2. i \in 1 .. p
            BY <2>1, <1>1
        <3> QED
            BY <3>1, <3>2, <1>1, <1>5
    <2>2. CASE i > p
        <3>1. (b \o z)[i] = z[i - p]
            BY <2>2, <1>1, <1>6
        <3>2. i - p \in 1 .. Len(c) - p + 1 /\ p + (i - p) - 1 = i - 1
            BY <2>2, <1>1
        <3>3. z[i - p] = c[i - 1]
            BY <3>2, <1>3
        <3> QED
            BY <3>1, <3>3, <2>2, <1>1
    <2>3. i <= p \/ i > p
        BY <1>1
    <2> QED
        BY <2>1, <2>2, <2>3, Zenon
<1> QED
    BY <1>6, <1>7, <1>8

\* What a chain holds without one of its devices.
LEMMA WithoutProperties ==
    ASSUME NEW S, NEW s \in Seq(S), NEW k \in 1 .. Len(s)
    PROVE  /\ Without(s, k) \in Seq(S)
           /\ Len(Without(s, k)) = Len(s) - 1
           /\ \A i \in 1 .. Len(s) - 1 : Without(s, k)[i] = IF i < k THEN s[i] ELSE s[i + 1]
<1> DEFINE a == SubSeq(s, 1, k - 1)
           z == SubSeq(s, k + 1, Len(s))
<1>1. Len(s) \in Nat /\ \A i \in 1 .. Len(s) : s[i] \in S
    BY ElementOfSeq, LenProperties
<1>2. /\ a \in Seq(S)
      /\ Len(a) = k - 1
      /\ \A i \in 1 .. k - 1 : a[i] = s[i]
    <2>1. k - 1 \in Int /\ 1 \in Int /\ \A i \in 1 .. k - 1 : s[i] \in S
        BY <1>1
    <2>2. /\ a \in Seq(S)
          /\ Len(a) = IF 1 <= k - 1 THEN k - 1 - 1 + 1 ELSE 0
          /\ \A i \in 1 .. k - 1 - 1 + 1 : a[i] = s[1 + i - 1]
        BY <2>1, SubSeqProperties
    <2> QED
        BY <2>2, <1>1
<1>3. /\ z \in Seq(S)
      /\ Len(z) = Len(s) - k
      /\ \A i \in 1 .. Len(s) - k : z[i] = s[k + i]
    <2>1. k + 1 \in Int /\ Len(s) \in Int /\ \A i \in k + 1 .. Len(s) : s[i] \in S
        BY <1>1
    <2>2. /\ z \in Seq(S)
          /\ Len(z) = IF k + 1 <= Len(s) THEN Len(s) - (k + 1) + 1 ELSE 0
          /\ \A i \in 1 .. Len(s) - (k + 1) + 1 : z[i] = s[(k + 1) + i - 1]
        BY <2>1, SubSeqProperties
    <2> QED
        BY <2>2, <1>1
<1> HIDE DEF a, z
<1>4. /\ a \o z \in Seq(S)
      /\ Len(a \o z) = Len(a) + Len(z)
      /\ \A i \in 1 .. Len(a) + Len(z) : (a \o z)[i] = IF i <= Len(a) THEN a[i] ELSE z[i - Len(a)]
    BY <1>2, <1>3, ConcatProperties
<1>5. Without(s, k) = a \o z
    BY DEF Without, a, z
<1> DEFINE w == a \o z
<1> HIDE DEF w
<1>6. /\ w \in Seq(S)
      /\ Len(w) = Len(s) - 1
      /\ \A i \in 1 .. Len(s) - 1 : w[i] = IF i <= k - 1 THEN a[i] ELSE z[i - (k - 1)]
    BY <1>1, <1>2, <1>3, <1>4 DEF w
<1>7. \A i \in 1 .. Len(s) - 1 : w[i] = IF i < k THEN s[i] ELSE s[i + 1]
    <2> TAKE i \in 1 .. Len(s) - 1
    <2>1. CASE i < k
        <3>1. i \in 1 .. k - 1
            BY <2>1, <1>1
        <3> QED
            BY <3>1, <2>1, <1>1, <1>2, <1>6
    <2>2. CASE i >= k
        <3>1. i - (k - 1) \in 1 .. Len(s) - k /\ k + (i - (k - 1)) = i + 1
            BY <2>2, <1>1
        <3>2. w[i] = z[i - (k - 1)]
            BY <2>2, <1>1, <1>6
        <3>3. z[i - (k - 1)] = s[i + 1]
            BY <3>1, <1>3
        <3> QED
            BY <3>2, <3>3, <2>2, <1>1
    <2> QED
        BY <2>1, <2>2, <1>1
<1>8. Without(s, k) = w
    BY <1>5 DEF w
<1> QED
    BY <1>6, <1>7, <1>8

\* Taking away the device that was inserted gives the old chain.
LEMMA WithoutInserted ==
    ASSUME NEW S, NEW c \in Seq(S), NEW d \in S, NEW p \in 1 .. Len(c) + 1
    PROVE  Without(InsertAt(c, p, d), p) = c
<1> DEFINE n == InsertAt(c, p, d)
<1>1. Len(c) \in Nat
    BY LenProperties
<1>2. /\ n \in Seq(S)
      /\ Len(n) = Len(c) + 1
      /\ \A i \in 1 .. Len(c) + 1 : n[i] = IF i < p THEN c[i] ELSE IF i = p THEN d ELSE c[i - 1]
    BY InsertProperties
<1> HIDE DEF n
<1>3. p \in 1 .. Len(n)
    BY <1>2
<1>4. /\ Without(n, p) \in Seq(S)
      /\ Len(Without(n, p)) = Len(n) - 1
      /\ \A i \in 1 .. Len(n) - 1 : Without(n, p)[i] = IF i < p THEN n[i] ELSE n[i + 1]
    BY <1>2, <1>3, WithoutProperties
<1> DEFINE w == Without(n, p)
<1> HIDE DEF w
<1>5. Len(w) = Len(c) /\ \A i \in 1 .. Len(c) : w[i] = c[i]
    <2>1. Len(w) = Len(c) /\ \A i \in 1 .. Len(c) : w[i] = IF i < p THEN n[i] ELSE n[i + 1]
        BY <1>1, <1>2, <1>4 DEF w
    <2>2. ASSUME NEW i \in 1 .. Len(c) PROVE w[i] = c[i]
        <3>1. CASE i < p
            BY <3>1, <2>1, <1>1, <1>2, SMTT(30)
        <3>2. CASE i >= p
            <4>1. i + 1 \in 1 .. Len(c) + 1 /\ i + 1 > p /\ (i + 1) - 1 = i
                BY <3>2, <1>1
            <4>2. n[i + 1] = c[i]
                BY <4>1, <1>1, <1>2
            <4> QED
                BY <4>2, <3>2, <2>1, <1>1
        <3> QED
            BY <3>1, <3>2, <1>1
    <2> QED
        BY <2>1, <2>2
<1>6. w = c
    <2>1. w \in Seq(S)
        BY <1>4 DEF w
    <2> QED
        BY <2>1, <1>5, SeqEqual
<1> QED
    BY <1>6 DEF n, w

\* Two places whose removal gives the same chain hold the same name: every place
\* between them does.
LEMMA SameNeighbours ==
    ASSUME NEW S, NEW s \in Seq(S), NEW j \in 1 .. Len(s), NEW k \in 1 .. Len(s),
           j <= k, Without(s, j) = Without(s, k)
    PROVE  s[j] = s[k]
<1> DEFINE T == {i \in j .. k : s[i] # s[j]}
<1>1. Len(s) \in Nat
    BY LenProperties
<1>2. \A i \in 1 .. Len(s) - 1 : Without(s, j)[i] = IF i < j THEN s[i] ELSE s[i + 1]
    BY WithoutProperties
<1>3. \A i \in 1 .. Len(s) - 1 : Without(s, k)[i] = IF i < k THEN s[i] ELSE s[i + 1]
    BY WithoutProperties
<1>4. \A i \in j .. k - 1 : s[i] = s[i + 1]
    BY <1>1, <1>2, <1>3
<1>5. ASSUME T # {} PROVE FALSE
    <2>1. T \subseteq Nat
        BY <1>1
    <2>2. PICK m \in T : \A y \in T : m <= y
        BY <1>5, <2>1, LeastNumber
    <2>3. m \in j .. k /\ s[m] # s[j]
        BY <2>2
    <2>4. m # j
        BY <2>3
    <2>5. m - 1 \in j .. k - 1
        BY <1>1, <2>3, <2>4
    <2>6. m - 1 \notin T
        BY <1>1, <2>2, <2>3
    <2>7. s[m - 1] = s[j]
        BY <1>1, <2>5, <2>6
    <2>8. s[m - 1] = s[(m - 1) + 1]
        BY <1>4, <2>5
    <2> QED
        BY <1>1, <2>3, <2>7, <2>8
<1> QED
    BY <1>1, <1>5

\* The index that is reported: the first place whose removal gives the old chain.
LEMMA InsertedIndexFirst ==
    ASSUME NEW S, NEW old \in Seq(S), NEW s \in Seq(S), NEW k \in 1 .. Len(s), Without(s, k) = old
    PROVE  /\ InsertedIndex(old, s) + 1 \in 1 .. Len(s)
           /\ Without(s, InsertedIndex(old, s) + 1) = old
           /\ s[InsertedIndex(old, s) + 1] = s[k]
<1> DEFINE places == {i \in 1 .. Len(s) : Without(s, i) = old}
           Q(i) == i \in places /\ \A j \in places : i <= j
           first == CHOOSE i : Q(i)
<1>1. Len(s) \in Nat
    BY LenProperties
<1>2. places \subseteq Nat /\ places # {} /\ k \in places
    BY <1>1
<1>3. \E i : Q(i)
    BY <1>2, LeastNumber
<1>4. Q(first)
    BY <1>3
<1>5. first \in 1 .. Len(s) /\ Without(s, first) = old /\ first <= k
    BY <1>2, <1>4
<1>6. InsertedIndex(old, s) = first - 1
    BY <1>2 DEF InsertedIndex
<1> HIDE DEF first
<1>7. s[first] = s[k]
    BY <1>5, SameNeighbours
<1>8. InsertedIndex(old, s) + 1 = first
    BY <1>1, <1>5, <1>6
<1> QED
    BY <1>5, <1>7, <1>8
------------------------------------------------------------
(* Every action preserves the invariant.                                          *)

\* No load has begun: LoadIInv holds at first. Then one lemma for each action.
LEMMA LoadInitIInv == ASSUME LoadInit PROVE LoadIInv
<1>1. LoadTypeInv
    <2>1. <<>> \in Seq(Devices)
        BY EmptySeq
    <2>2. devices \in [TrackIds -> Seq(Devices)] /\ chainBefore \in Seq(Devices) /\ beforeNames \in Seq(Devices)
        BY <2>1 DEF LoadInit
    <2>3. insertMode \in [TrackIds -> Modes] /\ modeBefore \in [TrackIds -> Modes]
        BY DEF LoadInit, Modes, InsertModeValue
    <2>4. loads \in 0 .. MaxLoads
        BY MaxLoadsNat DEF LoadInit
    <2> QED
        BY <2>2, <2>3, <2>4 DEF LoadInit, LoadTypeInv, LoadTypeOK, LoadPcs
<1>2. ModeInv
    BY DEF LoadInit, ModeInv, Unprepared, Loading
<1>3. ChainInv
    BY DEF LoadInit, ChainInv, BeforeInsert, Unprepared
<1> QED
    BY <1>1, <1>2, <1>3 DEF LoadIInv

LEMMA ListIInv == ASSUME NEW c \in Categories, LoadIInv, List(c) PROVE LoadIInv'
<1> USE DEF LoadIInv
<1>1. LoadTypeInv'
    BY TracksNat, MaxLoadsNat DEF LoadTypeInv, LoadTypeOK, LoadPcs, Modes, None, Positioned, Beside, InsertModeValue, TrackIds,
       List, treeVars, liveVars, localVars, historyVars
<1>2. ModeInv'
    BY TracksNat DEF LoadTypeInv, LoadTypeOK, ModeInv, Unprepared, Loading, Modes, None, Positioned, Beside,
       List, treeVars, liveVars, localVars, historyVars
<1>3. ChainInv'
    BY TracksNat DEF LoadTypeInv, LoadTypeOK, ChainInv, BeforeInsert, Unprepared, Asked, Positioned, Beside,
       List, treeVars, liveVars, localVars, historyVars
<1> QED
    BY <1>1, <1>2, <1>3

LEMMA RefreshIInv == ASSUME LoadIInv, Refresh PROVE LoadIInv'
<1> USE DEF LoadIInv
<1>1. LoadTypeInv'
    BY TracksNat, MaxLoadsNat DEF LoadTypeInv, LoadTypeOK, LoadPcs, Modes, None, Positioned, Beside, InsertModeValue, TrackIds,
       Refresh, treeVars, liveVars, localVars, historyVars
<1>2. ModeInv'
    BY TracksNat DEF LoadTypeInv, LoadTypeOK, ModeInv, Unprepared, Loading, Modes, None, Positioned, Beside,
       Refresh, treeVars, liveVars, localVars, historyVars
<1>3. ChainInv'
    BY TracksNat DEF LoadTypeInv, LoadTypeOK, ChainInv, BeforeInsert, Unprepared, Asked, Positioned, Beside,
       Refresh, treeVars, liveVars, localVars, historyVars
<1> QED
    BY <1>1, <1>2, <1>3

LEMMA EditIInv == ASSUME NEW t \in TrackIds, LoadIInv, Edit(t) PROVE LoadIInv'
<1> USE DEF LoadIInv
<1>1. LoadTypeInv'
    BY ChainsAreSequences, TracksNat, MaxLoadsNat DEF LoadTypeInv, LoadTypeOK, LoadPcs, Modes, None, Positioned, Beside, InsertModeValue, TrackIds,
       Edit, treeVars, liveVars, localVars, historyVars
<1>2. ModeInv'
    BY ChainsAreSequences, TracksNat DEF LoadTypeInv, LoadTypeOK, ModeInv, Unprepared, Loading, Modes, None, Positioned, Beside,
       Edit, treeVars, liveVars, localVars, historyVars
<1>3. ChainInv'
    BY ChainsAreSequences, TracksNat DEF LoadTypeInv, LoadTypeOK, ChainInv, BeforeInsert, Unprepared, Asked, Positioned, Beside,
       Edit, treeVars, liveVars, localVars, historyVars
<1> QED
    BY <1>1, <1>2, <1>3

LEMMA AskIInv == ASSUME NEW r \in LoadRequests, LoadIInv, Ask(r) PROVE LoadIInv'
<1> USE DEF LoadIInv
<1>1. LoadTypeInv'
    <2>1. <<>> \in Seq(Devices)
        BY EmptySeq
    <2>2. chainBefore' \in Seq(Devices) /\ beforeNames' \in Seq(Devices)
        BY <2>1 DEF Ask, LoadTypeInv, LoadTypeOK
    <2>3. loads' \in 0 .. MaxLoads
        BY MaxLoadsNat DEF Ask, LoadTypeInv, LoadTypeOK
    <2> QED
        BY <2>2, <2>3 DEF LoadTypeInv, LoadTypeOK, LoadPcs, Ask, treeVars, liveVars
<1>2. ModeInv'
    BY EmptySeq, TracksNat DEF LoadTypeInv, LoadTypeOK, ModeInv, Unprepared, Loading, Modes, None, Positioned, Beside,
       Ask, NoReplyYet, treeVars, liveVars, localVars, historyVars
<1>3. ChainInv'
    BY EmptySeq, TracksNat DEF LoadTypeInv, LoadTypeOK, ChainInv, BeforeInsert, Unprepared, Asked, Positioned, Beside,
       Ask, NoReplyYet, treeVars, liveVars, localVars, historyVars
<1> QED
    BY <1>1, <1>2, <1>3

LEMMA CheckIInv == ASSUME LoadIInv, Check PROVE LoadIInv'
<1> USE DEF LoadIInv
<1>1. LoadTypeInv'
    BY LoadRequestsKnown, TracksNat, MaxLoadsNat DEF LoadTypeInv, LoadTypeOK, LoadPcs, Modes, None, Positioned, Beside, InsertModeValue, TrackIds,
       Check, Invalid, Error, Reply, Continue, treeVars, liveVars, localVars, historyVars
<1>2. ModeInv'
    BY LoadRequestsKnown, TracksNat DEF LoadTypeInv, LoadTypeOK, ModeInv, Unprepared, Loading, Modes, None, Positioned, Beside,
       Check, Invalid, Error, Reply, Continue, treeVars, liveVars, localVars, historyVars
<1>3. ChainInv'
    BY LoadRequestsKnown, TracksNat DEF LoadTypeInv, LoadTypeOK, ChainInv, BeforeInsert, Unprepared, Asked, Positioned, Beside,
       Check, Invalid, Error, Reply, Continue, treeVars, liveVars, localVars, historyVars
<1> QED
    BY <1>1, <1>2, <1>3

LEMMA SelectTrackIInv == ASSUME LoadIInv, SelectTrack PROVE LoadIInv'
<1> USE DEF LoadIInv
<1>1. LoadTypeInv'
    BY TracksNat, MaxLoadsNat DEF LoadTypeInv, LoadTypeOK, LoadPcs, Modes, None, Positioned, Beside, InsertModeValue, TrackIds,
       SelectTrack, Error, Reply, Continue, treeVars, liveVars, localVars, historyVars
<1>2. ModeInv'
    BY TracksNat DEF LoadTypeInv, LoadTypeOK, ModeInv, Unprepared, Loading, Modes, None, Positioned, Beside,
       SelectTrack, Error, Reply, Continue, treeVars, liveVars, localVars, historyVars
<1>3. ChainInv'
    BY TracksNat DEF LoadTypeInv, LoadTypeOK, ChainInv, BeforeInsert, Unprepared, Asked, Positioned, Beside,
       SelectTrack, Error, Reply, Continue, treeVars, liveVars, localVars, historyVars
<1> QED
    BY <1>1, <1>2, <1>3

LEMMA SelectAnchorIInv == ASSUME LoadIInv, SelectAnchor PROVE LoadIInv'
<1> USE DEF LoadIInv
<1>1. LoadTypeInv'
    BY LoadRequestsKnown, TracksNat, MaxLoadsNat, SMTT(30) DEF LoadTypeInv, LoadTypeOK, LoadPcs, Modes, None, Positioned, Beside, InsertModeValue, TrackIds,
       SelectAnchor, Error, Reply, Continue, treeVars, liveVars, localVars, historyVars
<1>2. ModeInv'
    BY LoadRequestsKnown, TracksNat DEF LoadTypeInv, LoadTypeOK, ModeInv, Unprepared, Loading, Modes, None, Positioned, Beside,
       SelectAnchor, Error, Reply, Continue, treeVars, liveVars, localVars, historyVars
<1>3. ChainInv'
    BY LoadRequestsKnown, TracksNat DEF LoadTypeInv, LoadTypeOK, ChainInv, BeforeInsert, Unprepared, Asked, Positioned, Beside,
       SelectAnchor, Error, Reply, Continue, treeVars, liveVars, localVars, historyVars
<1> QED
    BY <1>1, <1>2, <1>3

LEMMA SetInsertModeIInv == ASSUME LoadIInv, SetInsertMode PROVE LoadIInv'
<1> USE DEF LoadIInv
<1>1. LoadTypeInv'
    <2>1. InsertModeValue(load.mode) \in Modes
        <3>1. load.mode \in {"append", "before", "after"}
            BY LoadRequestsKnown DEF SetInsertMode, LoadTypeInv, Positioned
        <3> QED
            BY <3>1 DEF InsertModeValue, Modes
    <2>2. insertMode' \in [TrackIds -> Modes]
        BY <2>1 DEF SetInsertMode, LoadTypeInv, LoadTypeOK
    <2> QED
        BY <2>2 DEF LoadTypeInv, LoadTypeOK, LoadPcs, Positioned, Beside, SetInsertMode, Error, Reply, Continue,
           treeVars, localVars, historyVars
<1>2. ModeInv'
    BY LoadRequestsKnown, TracksNat DEF LoadTypeInv, LoadTypeOK, ModeInv, Unprepared, Loading, Modes, None, Positioned, Beside,
       SetInsertMode, Error, Reply, Continue, treeVars, liveVars, localVars, historyVars
<1>3. ChainInv'
    BY LoadRequestsKnown, TracksNat DEF LoadTypeInv, LoadTypeOK, ChainInv, BeforeInsert, Unprepared, Asked, Positioned, Beside,
       SetInsertMode, Error, Reply, Continue, treeVars, liveVars, localVars, historyVars
<1> QED
    BY <1>1, <1>2, <1>3

LEMMA CountIInv == ASSUME LoadIInv, Count PROVE LoadIInv'
<1> USE DEF LoadIInv
<1>1. LoadTypeInv'
    <2>1. load.track \in TrackIds
        BY DEF Count, LoadTypeInv, LoadTypeOK
    <2>2. devices[load.track] \in Seq(Devices) /\ Len(devices[load.track]) \in Nat
        BY <2>1, LenProperties DEF LoadTypeInv, LoadTypeOK
    <2>3. <<>> \in Seq(Devices)
        BY EmptySeq
    <2>4. beforeNames' \in Seq(Devices)
        BY <2>2, <2>3 DEF Count, NamesRead
    <2>5. sizeBefore' \in Nat \cup {None}
        BY <2>2 DEF Count
    <2>6. /\ UNCHANGED <<browser, known, listing, devices, insertMode, selectedDevice, previous, modeBefore, chainBefore, stuck, load, loads>>
          /\ loadPc' = "insert"
          /\ loadPc \in {"count", "load"}
        BY DEF Count, Continue, treeVars, liveVars, historyVars
    <2> QED
        BY <2>4, <2>5, <2>6 DEF LoadTypeInv, LoadTypeOK, LoadPcs, Positioned, Beside
<1>2. ModeInv'
    BY EmptySeq, TracksNat DEF LoadTypeInv, LoadTypeOK, ModeInv, Unprepared, Loading, Modes, None, Positioned, Beside,
       Count, Continue, NamesRead, treeVars, liveVars, localVars, historyVars
<1>3. ChainInv'
    BY EmptySeq, TracksNat DEF LoadTypeInv, LoadTypeOK, ChainInv, BeforeInsert, Unprepared, Asked, Positioned, Beside,
       Count, Continue, NamesRead, treeVars, liveVars, localVars, historyVars
<1> QED
    BY <1>1, <1>2, <1>3

\* What was set is set back: to what the track had, which previous has kept.
LEMMA RestoredMode == ASSUME LoadIInv, Restore, ~stuck' PROVE insertMode' = modeBefore
<1>1. load.track \in TrackIds /\ modeBefore \in [TrackIds -> Modes]
    BY DEF Restore, LoadIInv, LoadTypeInv, LoadTypeOK
<1>2. modeBefore[load.track] # None
    BY <1>1 DEF Modes, None
<1>3. insertMode' = IF previous = None THEN insertMode ELSE [insertMode EXCEPT ![load.track] = previous]
    BY DEF Restore
<1>4. CASE Positioned
    <2>1. /\ previous = modeBefore[load.track]
          /\ insertMode = [modeBefore EXCEPT ![load.track] = InsertModeValue(load.mode)]
        BY <1>4 DEF Restore, LoadIInv, ModeInv, Loading
    <2>2. insertMode' = [insertMode EXCEPT ![load.track] = modeBefore[load.track]]
        BY <1>2, <1>3, <2>1
    <2> QED
        BY <1>1, <2>1, <2>2
<1>5. CASE ~Positioned
    BY <1>3, <1>5 DEF Restore, LoadIInv, ModeInv, Loading
<1> QED
    BY <1>4, <1>5

LEMMA RestoreIInv == ASSUME LoadIInv, Restore PROVE LoadIInv'
<1> USE DEF LoadIInv
<1>1. LoadTypeInv'
    BY TracksNat, MaxLoadsNat DEF LoadTypeInv, LoadTypeOK, LoadPcs, Modes, None, Positioned, Beside, InsertModeValue, TrackIds,
       Restore, Error, Reply, Continue, treeVars, liveVars, localVars, historyVars
<1>2. ModeInv'
    <2>1. loadPc' \in {"idle", "report"}
        BY DEF Restore, Error, Reply, Continue
    <2>2. ASSUME ~stuck' PROVE insertMode' = modeBefore
        BY <2>2, RestoredMode
    <2>3. modeBefore' = modeBefore
        BY DEF Restore
    <2> QED
        BY <2>1, <2>2, <2>3 DEF ModeInv, Unprepared, Loading
<1>3. ChainInv'
    BY TracksNat DEF LoadTypeInv, LoadTypeOK, ChainInv, BeforeInsert, Unprepared, Asked, Positioned, Beside,
       Restore, Error, Reply, Continue, treeVars, liveVars, localVars, historyVars
<1> QED
    BY <1>1, <1>2, <1>3

LEMMA ReportIInv == ASSUME LoadIInv, Report PROVE LoadIInv'
<1> USE DEF LoadIInv
<1>1. LoadTypeInv'
    BY TracksNat, MaxLoadsNat DEF LoadTypeInv, LoadTypeOK, LoadPcs, Modes, None, Positioned, Beside, InsertModeValue, TrackIds,
       Report, Reply, NamesRead, treeVars, liveVars, localVars, historyVars
<1>2. ModeInv'
    BY TracksNat DEF LoadTypeInv, LoadTypeOK, ModeInv, Unprepared, Loading, Modes, None, Positioned, Beside,
       Report, Reply, NamesRead, treeVars, liveVars, localVars, historyVars
<1>3. ChainInv'
    BY TracksNat DEF LoadTypeInv, LoadTypeOK, ChainInv, BeforeInsert, Unprepared, Asked, Positioned, Beside,
       Report, Reply, NamesRead, treeVars, liveVars, localVars, historyVars
<1> QED
    BY <1>1, <1>2, <1>3

LEMMA LoadItemIInv == ASSUME LoadIInv, LoadItem PROVE LoadIInv'
<1> USE DEF LoadIInv
<1> DEFINE t == load.track
           chain == devices[t]
           p == Place(chain, insertMode[t])
<1>1. t \in TrackIds /\ chain \in Seq(Devices) /\ chain = chainBefore /\ Len(chain) \in Nat
    <2>1. t \in TrackIds /\ devices[t] \in Seq(Devices)
        BY DEF LoadItem, LoadTypeInv, LoadTypeOK
    <2>2. devices[t] = chainBefore
        BY <2>1 DEF LoadItem, ChainInv, BeforeInsert
    <2> QED
        BY <2>1, <2>2, LenProperties
<1>2. p = Asked + 1 /\ p \in 1 .. Len(chain) + 1
    <2>1. load.mode \in {"none", "append", "before", "after"} /\ load.anchor \in Int /\ (Beside => load.anchor >= 0)
        BY LoadRequestsKnown DEF LoadItem, LoadTypeInv
    <2>2. IF Beside THEN selectedDevice = load.anchor /\ load.anchor < Len(chain) ELSE selectedDevice = None
        BY <1>1 DEF LoadItem, ChainInv
    <2>3. Positioned => insertMode[t] = InsertModeValue(load.mode)
        BY <1>1 DEF LoadItem, ModeInv, Loading, LoadTypeInv, LoadTypeOK
    <2>4. CASE Beside
        BY <1>1, <2>1, <2>2, <2>3, <2>4 DEF Place, InsertModeValue, Beside, Positioned, Asked, None
    <2>5. CASE ~Beside
        BY <1>1, <2>1, <2>2, <2>5 DEF Place, Beside, Asked, None
    <2> QED
        BY <2>4, <2>5
<1>3. /\ devices' \in [TrackIds -> Seq(Devices)]
      /\ \/ Len(devices'[t]) = Len(chain)
         \/ \E d \in Devices : devices'[t] = InsertAt(chain, p, d)
    <2>1. CASE UNCHANGED devices
        BY <1>1, <2>1 DEF LoadTypeInv, LoadTypeOK
    <2>2. ASSUME NEW d \in Devices, devices' = [devices EXCEPT ![t] = InsertAt(chain, p, d)]
          PROVE  devices' \in [TrackIds -> Seq(Devices)] /\ devices'[t] = InsertAt(chain, p, d)
        <3>1. InsertAt(chain, p, d) \in Seq(Devices)
            BY <1>1, <1>2, InsertProperties
        <3> QED
            BY <1>1, <2>2, <3>1 DEF LoadTypeInv, LoadTypeOK
    <2>3. ASSUME NEW d \in Devices, NEW k \in DOMAIN chain, devices' = [devices EXCEPT ![t][k] = d]
          PROVE  devices' \in [TrackIds -> Seq(Devices)] /\ Len(devices'[t]) = Len(chain)
        <3>1. k \in 1 .. Len(chain)
            BY <1>1, LenProperties
        <3>2. [chain EXCEPT ![k] = d] \in Seq(Devices) /\ Len([chain EXCEPT ![k] = d]) = Len(chain)
            BY <1>1, <3>1, ExceptSeq
        <3>3. devices' = [devices EXCEPT ![t] = [chain EXCEPT ![k] = d]]
            BY <2>3
        <3> QED
            BY <1>1, <3>2, <3>3 DEF LoadTypeInv, LoadTypeOK
    <2> QED
        BY <2>1, <2>2, <2>3 DEF LoadItem
<1>4. /\ loadPc = "insert"
      /\ loadPc' \in {"loaded", "raised"}
      /\ UNCHANGED <<browser, known, listing, insertMode, selectedDevice, previous, sizeBefore, beforeNames,
                     modeBefore, chainBefore, stuck, load, loads>>
    BY DEF LoadItem, treeVars, localVars, historyVars
<1> HIDE DEF t, chain, p
<1>5. LoadTypeInv'
    <2>1. devices' \in [TrackIds -> Seq(Devices)]
        BY <1>3
    <2> QED
        BY <1>1, <1>4, <2>1 DEF LoadTypeInv, LoadTypeOK, LoadPcs, Positioned, Beside, t
<1>6. ModeInv'
    BY <1>4 DEF ModeInv, Unprepared, Loading, Positioned
<1>7. ChainInv'
    <2>1. Asked' = Asked /\ load' = load /\ chainBefore' = chainBefore
        BY <1>4 DEF Asked
    <2>2. \/ Len(devices'[t]) = Len(chainBefore)
          \/ /\ Asked + 1 \in 1 .. Len(chainBefore) + 1
             /\ \E d \in Devices : devices'[t] = InsertAt(chainBefore, Asked + 1, d)
        BY <1>1, <1>2, <1>3
    <2> QED
        BY <1>4, <2>1, <2>2 DEF ChainInv, BeforeInsert, Unprepared, t
<1> QED
    BY <1>5, <1>6, <1>7

\* A step that changes nothing.
LEMMA LoadStutterIInv == ASSUME LoadIInv, UNCHANGED loadVars PROVE LoadIInv'
BY DEF LoadIInv, LoadTypeInv, LoadTypeOK, ModeInv, ChainInv, Unprepared, Loading, BeforeInsert, LoadPcs, Positioned, Beside, Asked,
   loadVars, treeVars, liveVars, localVars, historyVars

\* LoadIInv is inductive.
LEMMA LoadNextIInv == ASSUME LoadIInv, [LoadNext]_loadVars PROVE LoadIInv'
<1>1. CASE \E c \in Categories : List(c)
    BY <1>1, ListIInv
<1>2. CASE Refresh
    BY <1>2, RefreshIInv
<1>3. CASE \E t \in TrackIds : Edit(t)
    BY <1>3, EditIInv
<1>4. CASE \E r \in LoadRequests : Ask(r)
    BY <1>4, AskIInv
<1>5. CASE Check
    BY <1>5, CheckIInv
<1>6. CASE SelectTrack
    BY <1>6, SelectTrackIInv
<1>7. CASE SelectAnchor
    BY <1>7, SelectAnchorIInv
<1>8. CASE SetInsertMode
    BY <1>8, SetInsertModeIInv
<1>9. CASE Count
    BY <1>9, CountIInv
<1>10. CASE LoadItem
    BY <1>10, LoadItemIInv
<1>11. CASE Restore
    BY <1>11, RestoreIInv
<1>12. CASE Report
    BY <1>12, ReportIInv
<1>13. CASE UNCHANGED loadVars
    BY <1>13, LoadStutterIInv
<1> QED
    BY <1>1, <1>2, <1>3, <1>4, <1>5, <1>6, <1>7, <1>8, <1>9, <1>10, <1>11, <1>12, <1>13 DEF LoadNext

------------------------------------------------------------
(* The theorems.                                                                  *)

\* Types: in particular a load goes on only for a track that exists.
THEOREM LoadTypes == LoadSpec => []LoadTypeOK
<1>1. LoadIInv => LoadTypeOK
    BY DEF LoadIInv, LoadTypeInv
<1> QED
    BY <1>1, LoadInitIInv, LoadNextIInv, PTL DEF LoadSpec

\* load_item restores view.device_insert_mode of every track however it ends, unless
\* Live refuses the restoring assignment itself.
THEOREM InsertModeAlwaysRestored == LoadSpec => InsertModeRestored
<1>1. ASSUME LoadIInv, [LoadNext]_loadVars
      PROVE  [loadPc # "idle" /\ loadPc' = "idle" /\ ~stuck' => insertMode' = modeBefore]_loadVars
    <2> SUFFICES ASSUME LoadNext, loadPc # "idle", loadPc' = "idle", ~stuck'
                 PROVE  insertMode' = modeBefore
        BY <1>1
    <2>1. CASE Check \/ SelectTrack \/ SelectAnchor \/ SetInsertMode
        <3>1. CASE Check
            BY <1>1, <3>1 DEF LoadIInv, ModeInv, Unprepared, Check, liveVars
        <3>2. CASE SelectTrack
            BY <1>1, <3>2 DEF LoadIInv, ModeInv, Unprepared, SelectTrack
        <3>3. CASE SelectAnchor
            BY <1>1, <3>3 DEF LoadIInv, ModeInv, Unprepared, SelectAnchor
        <3>4. CASE SetInsertMode
            BY <1>1, <3>4 DEF LoadIInv, ModeInv, Unprepared, SetInsertMode, Continue
        <3> QED
            BY <2>1, <3>1, <3>2, <3>3, <3>4
    <2>2. CASE Restore \/ Report
        BY <1>1, <2>2, RestoredMode DEF LoadIInv, ModeInv, Report, liveVars, historyVars
    <2>3. CASE (\E c \in Categories : List(c)) \/ Refresh \/ (\E t \in TrackIds : Edit(t)) \/ (\E r \in LoadRequests : Ask(r))
        BY <2>3 DEF List, Refresh, Edit, Ask
    <2>4. CASE Count \/ LoadItem
        BY <2>4 DEF Count, Continue, LoadItem
    <2> QED
        BY <2>1, <2>2, <2>3, <2>4 DEF LoadNext
<1> QED
    BY <1>1, LoadInitIInv, LoadNextIInv, PTL DEF LoadSpec, InsertModeRestored

\* The index that load_item reports is that of the device that Live has inserted, and
\* it stands where the request has asked, whatever the chain holds: of several devices
\* of one name the first of the neighbours is reported.
THEOREM InsertedAlwaysWhereAsked == LoadSpec => InsertedWhereAsked
<1>1. ASSUME LoadIInv, [LoadNext]_loadVars
      PROVE  [loadPc = "report" /\ loadReply'.status = "ok" /\ loadReply'.index # None /\ beforeNames = chainBefore
              => LET chain == devices'[load.track]
                     i == loadReply'.index
                 IN /\ i + 1 \in DOMAIN chain
                    /\ Without(chain, i + 1) = chainBefore
                    /\ chain[i + 1] = chain[Asked + 1]]_loadVars
    <2> DEFINE chain == devices[load.track]
               i == loadReply'.index
    <2> SUFFICES ASSUME LoadNext, loadPc = "report", i # None, beforeNames = chainBefore
                 PROVE  /\ devices' = devices
                        /\ i + 1 \in DOMAIN chain
                        /\ Without(chain, i + 1) = chainBefore
                        /\ chain[i + 1] = chain[Asked + 1]
        BY <1>1
    <2>1. Report
        BY DEF LoadNext, List, Refresh, Edit, Ask, Check, SelectTrack, SelectAnchor, SetInsertMode, Count, LoadItem, Restore
    <2>2. devices' = devices
        BY <2>1 DEF Report, liveVars
    <2>3. chain \in Seq(Devices) /\ chainBefore \in Seq(Devices) /\ Len(chainBefore) \in Nat
        BY <1>1, LenProperties DEF LoadIInv, LoadTypeInv, LoadTypeOK
    <2>4. PICK after \in NamesRead(chain) :
              /\ i = IF Positioned /\ Len(after) > Len(chainBefore) THEN InsertedIndex(chainBefore, after) ELSE None
        BY <2>1 DEF Report, Reply
    <2>5. Len(after) > Len(chainBefore) /\ i = InsertedIndex(chainBefore, after)
        BY <2>4
    <2>6. after = chain
        <3>1. Len(<<>>) = 0
            OBVIOUS
        <3> QED
            BY <2>3, <2>4, <2>5, <3>1 DEF NamesRead
    <2>7. Asked + 1 \in 1 .. Len(chainBefore) + 1 /\ \E d \in Devices : chain = InsertAt(chainBefore, Asked + 1, d)
        BY <1>1, <2>3, <2>5, <2>6 DEF LoadIInv, ChainInv
    <2>8. PICK d \in Devices : chain = InsertAt(chainBefore, Asked + 1, d)
        BY <2>7
    <2>9. Without(chain, Asked + 1) = chainBefore
        BY <2>3, <2>7, <2>8, WithoutInserted
    <2>10. Len(chain) = Len(chainBefore) + 1
        BY <2>3, <2>7, <2>8, InsertProperties
    <2>11. Asked + 1 \in 1 .. Len(chain)
        BY <2>7, <2>10
    <2> HIDE DEF chain, i
    <2>12. /\ InsertedIndex(chainBefore, chain) + 1 \in 1 .. Len(chain)
           /\ Without(chain, InsertedIndex(chainBefore, chain) + 1) = chainBefore
           /\ chain[InsertedIndex(chainBefore, chain) + 1] = chain[Asked + 1]
        BY <2>3, <2>9, <2>11, InsertedIndexFirst
    <2>13. DOMAIN chain = 1 .. Len(chain)
        BY <2>3, LenProperties
    <2> QED
        BY <2>2, <2>5, <2>6, <2>12, <2>13
<1> QED
    BY <1>1, LoadInitIInv, LoadNextIInv, PTL DEF LoadSpec, InsertedWhereAsked


------------------------------------------------------------
(* What is listed can be found: the recursion that lists and the searches that load.  *)

\* A name, as the paths of a browser are made of.
Name == [stem : STRING, ext : STRING, case : STRING]

\* The first of the items that are good.
LEMMA FirstIs ==
    ASSUME NEW S, NEW items \in Seq(S), NEW good, NoItem \notin good
    PROVE /\ First(items, good) # NoItem =>
                \E k \in DOMAIN items : First(items, good) = items[k] /\ items[k] \in good
          /\ \A k \in DOMAIN items : items[k] \in good => First(items, good) # NoItem
<1> DEFINE places == {k \in DOMAIN items : items[k] \in good}
<1>1. CASE places = {}
  BY <1>1 DEF First
<1>2. CASE places # {}
  <2>1. places \subseteq Nat
    OBVIOUS
  <2>2. \E x \in places : \A y \in places : x <= y
    BY <1>2, <2>1, LeastNumber
  <2>3. Min(places) \in places
    BY <2>2 DEF Min
  <2>4. First(items, good) = items[Min(places)]
    BY <1>2 DEF First
  <2>5. items[Min(places)] \in good
    BY <2>3
  <2>. QED
    BY <2>3, <2>4, <2>5
<1>. QED
  BY <1>1, <1>2

\* What is picked is good.
LEMMA PickedAre ==
    ASSUME NEW S, NEW items \in Seq(S), NEW good
    PROVE Picked(items, good) \in Seq(S \cap good)
<1> DEFINE D == S \cap good
           n == Len(items)
           seqs == [k \in DOMAIN items |-> IF items[k] \in good THEN <<items[k]>> ELSE <<>>]
<1>1. n \in Nat /\ DOMAIN items = 1 .. n /\ \A k \in 1 .. n : items[k] \in S
  OBVIOUS
<1>2. seqs = [k \in 1 .. n |-> seqs[k]]
  BY <1>1
<1>3. ASSUME NEW k \in 1 .. n PROVE seqs[k] \in Seq(D)
  <2>1. CASE items[k] \in good
    <3>1. items[k] \in D
      BY <1>1, <2>1
    <3>2. seqs[k] = <<items[k]>>
      BY <1>1, <2>1
    <3>. HIDE DEF D
    <3>. QED
      BY <3>1, <3>2
  <2>2. CASE items[k] \notin good
    BY <1>1, <2>2
  <2>. QED
    BY <2>1, <2>2
<1>4. seqs \in Seq(Seq(D))
  <2>. HIDE DEF seqs, D
  <2>. QED
    BY <1>1, <1>2, <1>3, IsSequence
<1>5. FlattenSeq(seqs) \in Seq(D)
  <2>. HIDE DEF seqs, D
  <2>. QED
    BY <1>4, FlattenTyped
<1>. QED
  BY <1>5 DEF Picked

\* Of paths, those that are kept are among them.
LEMMA UniqueAre ==
    ASSUME NEW S, NEW paths \in Seq(S), NEW category
    PROVE Unique(paths, category) \in Seq(S)
<1> DEFINE n == Len(paths)
           seqs == [k \in DOMAIN paths |->
                      IF \E j \in 1 .. k - 1 : SameItem(paths[j], paths[k], category) THEN <<>> ELSE <<paths[k]>>]
<1>1. n \in Nat /\ DOMAIN paths = 1 .. n /\ \A k \in 1 .. n : paths[k] \in S
  OBVIOUS
<1>2. seqs = [k \in 1 .. n |-> seqs[k]]
  BY <1>1
<1>3. ASSUME NEW k \in 1 .. n PROVE seqs[k] \in Seq(S)
  <2>1. seqs[k] = <<>> \/ seqs[k] = <<paths[k]>>
    BY <1>1
  <2>2. <<>> \in Seq(S) /\ <<paths[k]>> \in Seq(S)
    BY <1>1
  <2>. QED
    BY <2>1, <2>2
<1>4. seqs \in Seq(Seq(S))
  <2>. HIDE DEF seqs
  <2>. QED
    BY <1>1, <1>2, <1>3, IsSequence
<1>5. FlattenSeq(seqs) \in Seq(S)
  <2>. HIDE DEF seqs
  <2>. QED
    BY <1>4, FlattenTyped
<1>. QED
  BY <1>5 DEF Unique

\* What a forest says of children.
Child(b, i, k) ==
    /\ b.kids[i] \in Seq(b.items)
    /\ b.kids[i][k] \in b.items
    /\ b.path[b.kids[i][k]] # <<>>
    /\ b.path[b.kids[i][k]] = Append(b.path[i], Leaf(b.path[b.kids[i][k]]))
    /\ \A l \in DOMAIN b.kids[i] : b.path[b.kids[i][k]] = b.path[b.kids[i][l]] => b.kids[i][k] = b.kids[i][l]

\* Every child is one.
LEMMA Children ==
    ASSUME NEW b, IsForest(b), NEW i \in b.items, NEW k \in DOMAIN b.kids[i]
    PROVE Child(b, i, k)
<1>1. b.kids[i] \in Seq(b.items)
  BY DEF IsForest
<1>2. b.kids[i][k] \in b.items
  BY <1>1
<1>3. /\ b.path[b.kids[i][k]] # <<>>
      /\ b.path[b.kids[i][k]] = Append(b.path[i], Leaf(b.path[b.kids[i][k]]))
      /\ \A l \in DOMAIN b.kids[i] : b.path[b.kids[i][k]] = b.path[b.kids[i][l]] => b.kids[i][k] = b.kids[i][l]
  BY ZenonT(30) DEF IsForest
<1>. QED
  BY <1>1, <1>2, <1>3 DEF Child

\* Where a search by path may be: at an item, or nowhere any more; and how it goes on
\* at each name.
Places(b) == b.items \cup {NoItem}
Steps(b, path) ==
    [k \in 1 .. Len(path) |-> [v \in Places(b) |-> IF v = NoItem THEN NoItem ELSE First(b.kids[v], Called(b, path[k]))]]

\* The search by path goes down by one step for each name.
LEMMA StepsTyped ==
    ASSUME NEW b, IsForest(b), NEW path \in Seq(Name)
    PROVE Steps(b, path) \in [1 .. Len(path) -> [Places(b) -> Places(b)]]
<1>1. ASSUME NEW k \in 1 .. Len(path), NEW v \in Places(b), v # NoItem
      PROVE First(b.kids[v], Called(b, path[k])) \in Places(b)
  <2>1. b.kids[v] \in Seq(b.items)
    BY <1>1 DEF IsForest, Places
  <2>2. NoItem \notin Called(b, path[k])
    BY DEF IsForest, Called
  <2>3. Called(b, path[k]) \subseteq b.items
    BY DEF IsForest, Called
  <2>. QED
    BY <2>1, <2>2, <2>3, FirstIs DEF Places
<1>. QED
  BY <1>1 DEF Steps, Places

\* What the search by path finds is where these steps end.
LEMMA FindUnfolds ==
    ASSUME NEW b, IsForest(b), NEW root \in b.items, NEW path \in Seq(Name)
    PROVE \E at : Iterates(at, Len(path), Places(b), root, Steps(b, path)) /\ FindByPath(b, root, path) = at[Len(path)]
<1> DEFINE n == Len(path)
           F(f) == [k \in 0 .. n |-> IF k = 0 THEN root
                        ELSE IF f[k - 1] = NoItem THEN NoItem
                        ELSE First(b.kids[f[k - 1]], Called(b, path[k]))]
           at == CHOOSE f : f = F(f)
<1>1. n \in Nat /\ root \in Places(b)
  BY DEF Places
<1>2. PICK g : Iterates(g, n, Places(b), root, Steps(b, path))
  BY <1>1, StepsTyped, Recursion
<1>3. g = F(g)
  <2>1. g = [k \in 0 .. n |-> g[k]]
    BY <1>2 DEF Iterates
  <2>2. g[0] = root
    BY <1>2 DEF Iterates
  <2>3. ASSUME NEW k \in 0 .. n, k # 0
        PROVE g[k] = IF g[k - 1] = NoItem THEN NoItem ELSE First(b.kids[g[k - 1]], Called(b, path[k]))
    <3>1. k - 1 \in 0 .. n - 1 /\ k - 1 + 1 = k /\ k \in 1 .. n
      BY <1>1, <2>3
    <3>2. g[k - 1] \in Places(b) /\ g[k] = Steps(b, path)[k][g[k - 1]]
      BY <1>2, <3>1 DEF Iterates
    <3>. QED
      BY <3>1, <3>2 DEF Steps
  <2>4. \A k \in 0 .. n : g[k] = F(g)[k]
    BY <2>2, <2>3
  <2>5. F(g) = [k \in 0 .. n |-> F(g)[k]]
    OBVIOUS
  <2>. HIDE DEF F
  <2>. QED
    BY <2>1, <2>4, <2>5
<1>4. at = F(at)
  <2>. HIDE DEF F
  <2>. QED
    BY <1>3
<1>5. at \in [0 .. n -> Places(b)] /\ at[0] = root /\ \A i \in 0 .. n - 1 : at[i] \in Places(b) => at[i + 1] = Steps(b, path)[i + 1][at[i]]
  <2>1. at = [k \in 0 .. n |-> IF k = 0 THEN root
                        ELSE IF at[k - 1] = NoItem THEN NoItem
                        ELSE First(b.kids[at[k - 1]], Called(b, path[k]))]
    BY <1>4
  <2>2. at[0] = root
    <3>. HIDE DEF at
    <3>. QED
      BY <1>1, <2>1
  <2>3. ASSUME NEW i \in 0 .. n - 1, at[i] \in Places(b)
        PROVE at[i + 1] = Steps(b, path)[i + 1][at[i]] /\ at[i + 1] \in Places(b)
    <3>1. i \in 0 .. n /\ i + 1 \in 1 .. n /\ i + 1 \in 0 .. n /\ i + 1 # 0 /\ i + 1 - 1 = i
      BY <1>1
    <3>2. at[i + 1] = IF at[i] = NoItem THEN NoItem ELSE First(b.kids[at[i]], Called(b, path[i + 1]))
      <4>. HIDE DEF at
      <4>. QED
        BY <2>1, <3>1
    <3>3. at[i + 1] = Steps(b, path)[i + 1][at[i]]
      <4>. HIDE DEF at
      <4>. QED
        BY <2>3, <3>1, <3>2 DEF Steps
    <3>4. Steps(b, path)[i + 1][at[i]] \in Places(b)
      <4>. HIDE DEF at
      <4>. QED
        BY <2>3, <3>1, StepsTyped
    <3>. QED
      BY <3>3, <3>4
  <2> DEFINE T == {i \in Nat : i <= n => at[i] \in Places(b)}
  <2>4. \A i \in Nat : i \in T
    <3>1. 0 \in T
      BY <1>1, <2>2
    <3>2. ASSUME NEW i \in Nat, i \in T PROVE i + 1 \in T
      <4>. HIDE DEF at
      <4>. QED
        BY <1>1, <2>3, <3>2
    <3>. HIDE DEF T
    <3>. QED
      BY <3>1, <3>2, Induction
  <2>5. \A i \in 0 .. n : at[i] \in Places(b)
    BY <1>1, <2>4
  <2>6. at = [k \in 0 .. n |-> at[k]]
    <3>. HIDE DEF at
    <3>. QED
      BY <2>1
  <2>. HIDE DEF at
  <2>. QED
    BY <2>2, <2>3, <2>5, <2>6
<1>6. FindByPath(b, root, path) = at[n]
  BY DEF FindByPath
<1>. HIDE DEF at
<1>7. Iterates(at, n, Places(b), root, Steps(b, path))
  BY <1>1, <1>5 DEF Iterates
<1>. QED
  BY <1>6, <1>7

\* What the search by path finds has the path that was asked for.
LEMMA FindSound ==
    ASSUME NEW b, IsForest(b), NEW root \in b.items, b.path[root] = <<>>, NEW path \in Seq(Name),
           FindByPath(b, root, path) # NoItem
    PROVE LET found == FindByPath(b, root, path) IN
          found \in b.items /\ b.path[found] = path /\ (path # <<>> => found \in b.named)
<1> DEFINE n == Len(path)
<1>1. PICK at : Iterates(at, n, Places(b), root, Steps(b, path)) /\ FindByPath(b, root, path) = at[n]
  BY FindUnfolds
<1> DEFINE Good(k) == at[k] # NoItem => b.path[at[k]] = SubSeq(path, 1, k) /\ (k > 0 => at[k] \in b.named)
           T == {k \in Nat : k <= n => Good(k)}
<1>2. n \in Nat
  OBVIOUS
<1>3. 0 \in T
  <2>1. b.path[at[0]] = SubSeq(path, 1, 0)
    BY <1>1, PrefixNone DEF Iterates
  <2>. QED
    BY <2>1
<1>4. ASSUME NEW k \in Nat, k \in T, k + 1 <= n, at[k + 1] # NoItem PROVE Good(k + 1)
  <2>1. k \in 0 .. n - 1 /\ k + 1 \in 1 .. n /\ k \in 0 .. n
    BY <1>2, <1>4
  <2>2. at[k] \in Places(b) /\ at[k + 1] = Steps(b, path)[k + 1][at[k]]
    BY <1>1, <2>1 DEF Iterates
  <2>3. at[k] # NoItem /\ at[k + 1] = First(b.kids[at[k]], Called(b, path[k + 1]))
    BY <1>4, <2>1, <2>2 DEF Steps
  <2>4. at[k] \in b.items /\ b.kids[at[k]] \in Seq(b.items)
    BY <2>2, <2>3 DEF Places, IsForest
  <2>5. NoItem \notin Called(b, path[k + 1])
    BY DEF IsForest, Called
  <2>6. PICK l \in DOMAIN b.kids[at[k]] : at[k + 1] = b.kids[at[k]][l] /\ at[k + 1] \in Called(b, path[k + 1])
    BY <1>4, <2>3, <2>4, <2>5, FirstIs
  <2>7. at[k + 1] \in b.named /\ Leaf(b.path[at[k + 1]]) = path[k + 1]
    BY <2>6 DEF Called
  <2>8. b.path[at[k + 1]] = Append(b.path[at[k]], path[k + 1])
    <3>1. \A x \in b.items : \A m \in DOMAIN b.kids[x] :
              b.path[b.kids[x][m]] = Append(b.path[x], Leaf(b.path[b.kids[x][m]]))
      BY Children DEF Child
    <3>. QED
      BY <2>4, <2>6, <2>7, <3>1
  <2>9. b.path[at[k]] = SubSeq(path, 1, k)
    BY <1>4, <2>1, <2>3
  <2>10. SubSeq(path, 1, k + 1) = Append(SubSeq(path, 1, k), path[k + 1])
    BY <2>1, PrefixNext
  <2>. QED
    BY <2>7, <2>8, <2>9, <2>10
<1>5. \A k \in Nat : k \in T
  <2>1. ASSUME NEW k \in Nat, k \in T PROVE k + 1 \in T
    BY <1>4, <2>1
  <2>. HIDE DEF T
  <2>. QED
    BY <1>3, <2>1, Induction
<1>6. Good(n)
  BY <1>2, <1>5
<1>7. SubSeq(path, 1, n) = path
  BY PrefixAll
<1>8. at[n] \in Places(b)
  BY <1>1, <1>2 DEF Iterates
<1>9. path # <<>> => n > 0
  BY <1>2
<1>. QED
  BY <1>1, <1>6, <1>7, <1>8, <1>9 DEF Places

\* If the search finds an item by its path, it finds the children of the item by theirs.
LEMMA FindNext ==
    ASSUME NEW b, IsForest(b), NEW root \in b.items, NEW i \in b.items, FindByPath(b, root, b.path[i]) = i,
           NEW l \in DOMAIN b.kids[i], b.kids[i][l] \in b.named
    PROVE FindByPath(b, root, b.path[b.kids[i][l]]) = b.kids[i][l]
<1>0. \A k \in DOMAIN b.kids[i] :
         /\ b.path[b.kids[i][k]] = Append(b.path[i], Leaf(b.path[b.kids[i][k]]))
         /\ \A m \in DOMAIN b.kids[i] : b.path[b.kids[i][k]] = b.path[b.kids[i][m]] => b.kids[i][k] = b.kids[i][m]
  <2>. SUFFICES ASSUME NEW k \in DOMAIN b.kids[i]
       PROVE /\ b.path[b.kids[i][k]] = Append(b.path[i], Leaf(b.path[b.kids[i][k]]))
             /\ \A m \in DOMAIN b.kids[i] : b.path[b.kids[i][k]] = b.path[b.kids[i][m]] => b.kids[i][k] = b.kids[i][m]
    OBVIOUS
  <2>1. Child(b, i, k)
    BY Children
  <2>. QED
    BY <2>1 DEF Child
<1> DEFINE kid == b.kids[i][l]
           p == b.path[i]
           q == b.path[kid]
           n == Len(p)
<1>1. kid \in b.items /\ p \in Seq(Name) /\ q \in Seq(Name) /\ q # <<>> /\ q = Append(p, Leaf(q)) /\ b.kids[i] \in Seq(b.items)
  BY DEF IsForest, Name
<1>2. n \in Nat /\ Len(q) = n + 1 /\ Leaf(q) = q[n + 1] /\ \A k \in 1 .. n : q[k] = p[k]
  <2>. HIDE DEF p, q
  <2>1. Len(q) = n + 1 /\ \A k \in 1 .. n : q[k] = p[k]
    BY <1>1
  <2>. QED
    BY <1>1, <2>1 DEF Leaf
<1>3. PICK a : Iterates(a, n, Places(b), root, Steps(b, p)) /\ FindByPath(b, root, p) = a[n]
  BY <1>1, FindUnfolds
<1>4. PICK c : Iterates(c, n + 1, Places(b), root, Steps(b, q)) /\ FindByPath(b, root, q) = c[n + 1]
  <2>. HIDE DEF p, q, n
  <2>1. \E c : Iterates(c, Len(q), Places(b), root, Steps(b, q)) /\ FindByPath(b, root, q) = c[Len(q)]
    BY <1>1, FindUnfolds
  <2>. QED
    BY <1>2, <2>1
<1>5. c[n] = i
  <2>1. \A k \in 1 .. n : Steps(b, p)[k] = Steps(b, q)[k]
    <3>1. \A k \in 1 .. n : k \in 1 .. Len(p) /\ k \in 1 .. Len(q) /\ q[k] = p[k]
      BY <1>2
    <3>. HIDE DEF p, q, n
    <3>. QED
      BY <3>1 DEF Steps
  <2>2. n <= n /\ n <= n + 1 /\ n + 1 \in Nat
    BY <1>2
  <2>3. a[n] = c[n]
    <3>. HIDE DEF p, q, n
    <3>. QED
      BY <1>2, <1>3, <1>4, <2>1, <2>2, IteratesUnique
  <2>. QED
    BY <1>3, <2>3
<1>6. c[n + 1] = First(b.kids[i], Called(b, Leaf(q)))
  <2>1. n \in 0 .. n + 1 - 1 /\ n + 1 \in 1 .. Len(q)
    BY <1>2
  <2>2. c[n + 1] = Steps(b, q)[n + 1][i]
    <3>1. c[n + 1] = Steps(b, q)[n + 1][c[n]]
      <4>. HIDE DEF p, q, n
      <4>. QED
        BY <1>4, <2>1 DEF Iterates
    <3>. QED
      BY <1>5, <3>1
  <2>3. i \in Places(b) /\ i # NoItem
    BY DEF Places, IsForest
  <2>. HIDE DEF q, n
  <2>. QED
    BY <1>2, <2>1, <2>2, <2>3 DEF Steps
<1>7. kid \in Called(b, Leaf(q))
  BY <1>1 DEF Called
<1>8. NoItem \notin Called(b, Leaf(q))
  BY DEF IsForest, Called
<1>9. PICK k \in DOMAIN b.kids[i] : c[n + 1] = b.kids[i][k] /\ b.kids[i][k] \in Called(b, Leaf(q))
  BY <1>1, <1>6, <1>7, <1>8, FirstIs
<1>10. b.path[b.kids[i][k]] = q
  <2>1. b.path[b.kids[i][k]] = Append(p, Leaf(b.path[b.kids[i][k]]))
    BY <1>0, <1>9
  <2>2. Leaf(b.path[b.kids[i][k]]) = Leaf(q)
    BY <1>9 DEF Called
  <2>. QED
    BY <1>1, <2>1, <2>2
<1>11. b.kids[i][k] = kid
  BY <1>0, <1>9, <1>10
<1>. QED
  BY <1>4, <1>9, <1>11

\* An item below a root that a load by its path finds.
Reached(b, root) == {i \in b.items : i \in b.named /\ b.path[i] # <<>> /\ FindByPath(b, root, b.path[i]) = i}

\* What the children of an item contribute, if v is what is below each of them.
Part(b, i, v) ==
    [k \in DOMAIN b.kids[i] |->
        LET kid == b.kids[i][k] IN
        IF kid \notin b.named THEN <<>>
        ELSE <<kid>> \o (IF kid \in b.folder THEN v[kid] ELSE <<>>)]

\* If what is below each child consists of such items, so does what the children contribute.
LEMMA PartTyped ==
    ASSUME NEW b, IsForest(b), NEW i \in b.items, NEW D, NEW v,
           \A k \in DOMAIN b.kids[i] : b.kids[i][k] \in b.named =>
                b.kids[i][k] \in D /\ (b.kids[i][k] \in b.folder => v[b.kids[i][k]] \in Seq(D))
    PROVE FlattenSeq(Part(b, i, v)) \in Seq(D)
<1> DEFINE n == Len(b.kids[i])
<1>1. n \in Nat /\ DOMAIN b.kids[i] = 1 .. n
  <2>1. b.kids[i] \in Seq(b.items)
    BY DEF IsForest
  <2>. QED
    BY <2>1
<1>2. Part(b, i, v) = [k \in 1 .. n |-> Part(b, i, v)[k]]
  BY <1>1 DEF Part
<1>3. ASSUME NEW k \in 1 .. n PROVE Part(b, i, v)[k] \in Seq(D)
  <2> DEFINE kid == b.kids[i][k]
             rest == IF kid \in b.folder THEN v[kid] ELSE <<>>
  <2>1. Part(b, i, v)[k] = IF kid \notin b.named THEN <<>> ELSE <<kid>> \o rest
    BY <1>1 DEF Part
  <2>2. CASE kid \notin b.named
    BY <2>1, <2>2
  <2>3. CASE kid \in b.named
    <3>1. kid \in D /\ rest \in Seq(D)
      BY <1>1, <2>3
    <3>2. <<kid>> \in Seq(D)
      <4>. HIDE DEF kid
      <4>. QED
        BY <3>1
    <3>3. <<kid>> \o rest \in Seq(D)
      <4>. HIDE DEF kid, rest
      <4>. QED
        BY <3>1, <3>2
    <3>. QED
      BY <2>1, <2>3, <3>3
  <2>. QED
    BY <2>2, <2>3
<1>4. Part(b, i, v) \in Seq(Seq(D))
  BY <1>1, <1>2, <1>3, IsSequence
<1>. QED
  BY <1>4, FlattenTyped

\* What Visited unfolds to: below each item, from each depth on.
Grows(below, b) ==
    \A i \in b.items :
        /\ below[<<i, MaxDepth + 1>>] = <<>>
        /\ \A depth \in 0 .. MaxDepth :
              below[<<i, depth>>] = FlattenSeq(Part(b, i, [j \in b.items |-> below[<<j, depth + 1>>]]))

\* One unfolding of it.
Deeper(b, below) ==
    [at \in b.items \X (0 .. MaxDepth + 1) |->
        IF at[2] > MaxDepth THEN <<>>
        ELSE FlattenSeq([k \in DOMAIN b.kids[at[1]] |->
                LET kid == b.kids[at[1]][k] IN
                IF kid \notin b.named THEN <<>>
                ELSE <<kid>> \o (IF kid \in b.folder THEN below[<<kid, at[2] + 1>>] ELSE <<>>)])]

\* What the unfolding gives for an item.
DeeperAt(b, f, i) ==
    /\ Deeper(b, f)[<<i, MaxDepth + 1>>] = <<>>
    /\ \A depth \in 0 .. MaxDepth :
          Deeper(b, f)[<<i, depth>>] = FlattenSeq(Part(b, i, [j \in b.items |-> f[<<j, depth + 1>>]]))

\* It gives that for every item.
LEMMA DeeperIs ==
    ASSUME NEW b, IsForest(b), NEW f, NEW i \in b.items
    PROVE DeeperAt(b, f, i)
<1>1. MaxDepth \in Nat
  BY MaxDepthNat
<1>2. Deeper(b, f)[<<i, MaxDepth + 1>>] = <<>>
  <2> DEFINE spot == <<i, MaxDepth + 1>>
  <2>1. spot \in b.items \X (0 .. MaxDepth + 1) /\ spot[2] = MaxDepth + 1 /\ spot[2] > MaxDepth
    BY <1>1
  <2>2. Deeper(b, f)[spot] = <<>>
    <3>. HIDE DEF spot
    <3>. QED
      BY <2>1 DEF Deeper
  <2>. QED
    BY <2>2
<1>3. ASSUME NEW depth \in 0 .. MaxDepth
      PROVE Deeper(b, f)[<<i, depth>>] = FlattenSeq(Part(b, i, [j \in b.items |-> f[<<j, depth + 1>>]]))
  <2> DEFINE spot == <<i, depth>>
             v == [j \in b.items |-> f[<<j, depth + 1>>]]
             p == [k \in DOMAIN b.kids[i] |->
                LET kid == b.kids[i][k] IN
                IF kid \notin b.named THEN <<>>
                ELSE <<kid>> \o (IF kid \in b.folder THEN f[<<kid, depth + 1>>] ELSE <<>>)]
  <2>1. spot \in b.items \X (0 .. MaxDepth + 1) /\ spot[1] = i /\ spot[2] = depth /\ ~(depth > MaxDepth)
    BY <1>1
  <2>2. Deeper(b, f)[spot] = FlattenSeq(p)
    <3>. HIDE DEF spot
    <3>. QED
      BY <2>1 DEF Deeper
  <2>3. p = Part(b, i, v)
    <3>1. \A k \in DOMAIN b.kids[i] : b.kids[i][k] \in b.items
      BY Children DEF Child
    <3>. QED
      BY <3>1 DEF Part
  <2>. QED
    BY <2>2, <2>3
<1>. QED
  BY <1>2, <1>3 DEF DeeperAt

\* Visited is what is below its item from depth 0 on.
LEMMA VisitedUnfolds ==
    ASSUME NEW b, IsForest(b), NEW root \in b.items
    PROVE \E below : Grows(below, b) /\ Visited(b, root) = below[<<root, 0>>]
<1> DEFINE M == MaxDepth + 1
           V == [b.items -> Seq(b.items)]
           base == [i \in b.items |-> <<>>]
           h == [n \in 1 .. M |-> [v \in V |-> [i \in b.items |-> FlattenSeq(Part(b, i, v))]]]
<1>1. MaxDepth \in Nat /\ M \in Nat
  BY MaxDepthNat
<1>2. base \in V
  OBVIOUS
<1>3. h \in [1 .. M -> [V -> V]]
  <2>1. ASSUME NEW v \in V, NEW i \in b.items PROVE FlattenSeq(Part(b, i, v)) \in Seq(b.items)
    <3>1. \A k \in DOMAIN b.kids[i] : b.kids[i][k] \in b.items
      BY Children DEF Child
    <3>. QED
      BY <3>1, PartTyped
  <2>2. \A v \in V : [i \in b.items |-> FlattenSeq(Part(b, i, v))] \in V
    BY <2>1
  <2>. HIDE DEF V
  <2>. QED
    BY <2>2
<1>4. PICK g : Iterates(g, M, V, base, h)
  <2>. HIDE DEF V, base, h, M
  <2>. QED
    BY <1>1, <1>2, <1>3, Recursion
<1>5. \A n \in 0 .. M : g[n] \in V
  BY <1>4 DEF Iterates
<1>6. g[0] = base
  BY <1>4 DEF Iterates
<1>7. ASSUME NEW n \in 0 .. M - 1 PROVE g[n + 1] = [i \in b.items |-> FlattenSeq(Part(b, i, g[n]))]
  <2>1. n \in 0 .. M /\ n + 1 \in 1 .. M
    BY <1>1
  <2>2. g[n + 1] = h[n + 1][g[n]] /\ g[n] \in V
    BY <1>4, <2>1 DEF Iterates
  <2>. HIDE DEF V
  <2>. QED
    BY <2>1, <2>2
<1> DEFINE t == [at \in b.items \X (0 .. MaxDepth + 1) |-> g[M - at[2]][at[1]]]
<1>8. \A i \in b.items : \A depth \in 0 .. M : t[<<i, depth>>] = g[M - depth][i]
  OBVIOUS
<1>9. t = Deeper(b, t)
  <2>1. ASSUME NEW i \in b.items, NEW depth \in 0 .. M PROVE t[<<i, depth>>] = Deeper(b, t)[<<i, depth>>]
    <3>1. CASE depth = M
      <4>1. t[<<i, depth>>] = base[i]
        BY <1>1, <1>6, <1>8, <3>1
      <4>. HIDE DEF t
      <4>. QED
        BY <3>1, <4>1, DeeperIs DEF DeeperAt
    <3>2. CASE depth # M
      <4>1. depth \in 0 .. MaxDepth /\ depth + 1 \in 0 .. M /\ M - depth - 1 \in 0 .. M - 1 /\ M - depth - 1 + 1 = M - depth
            /\ M - (depth + 1) = M - depth - 1
        BY <1>1, <3>2
      <4>2. g[M - depth] = [j \in b.items |-> FlattenSeq(Part(b, j, g[M - depth - 1]))]
        BY <1>7, <4>1
      <4>3. g[M - depth - 1] = [j \in b.items |-> t[<<j, depth + 1>>]]
        <5>1. g[M - depth - 1] = [j \in b.items |-> g[M - depth - 1][j]]
          BY <1>5, <1>1, <4>1
        <5>2. \A j \in b.items : t[<<j, depth + 1>>] = g[M - depth - 1][j]
          BY <1>8, <4>1
        <5>. HIDE DEF t
        <5>. QED
          BY <5>1, <5>2
      <4>4. t[<<i, depth>>] = FlattenSeq(Part(b, i, [j \in b.items |-> t[<<j, depth + 1>>]]))
        <5>1. t[<<i, depth>>] = FlattenSeq(Part(b, i, g[M - depth - 1]))
          BY <1>8, <4>2
        <5>. HIDE DEF t
        <5>. QED
          BY <5>1, <4>3
      <4>. HIDE DEF t
      <4>5. DeeperAt(b, t, i)
        BY DeeperIs
      <4>6. \A d \in 0 .. MaxDepth :
               Deeper(b, t)[<<i, d>>] = FlattenSeq(Part(b, i, [j \in b.items |-> t[<<j, d + 1>>]]))
        BY <4>5 DEF DeeperAt
      <4>. QED
        BY <4>1, <4>4, <4>6
    <3>. QED
      BY <3>1, <3>2
  <2>2. \A at \in b.items \X (0 .. MaxDepth + 1) : t[at] = Deeper(b, t)[at]
    <3>. HIDE DEF t
    <3>. QED
      BY <2>1
  <2>3. t = [at \in b.items \X (0 .. MaxDepth + 1) |-> t[at]]
    OBVIOUS
  <2>4. Deeper(b, t) = [at \in b.items \X (0 .. MaxDepth + 1) |-> Deeper(b, t)[at]]
    BY DEF Deeper
  <2>. HIDE DEF t
  <2>. QED
    BY <2>2, <2>3, <2>4
<1> DEFINE below == CHOOSE f : f = Deeper(b, f)
<1>10. below = Deeper(b, below)
  <2>. HIDE DEF t
  <2>. QED
    BY <1>9
<1>11. Visited(b, root) = below[<<root, 0>>]
  BY DEF Visited, Deeper
<1>. HIDE DEF below
<1>12. Grows(below, b)
  <2>. SUFFICES ASSUME NEW i \in b.items
       PROVE /\ below[<<i, MaxDepth + 1>>] = <<>>
             /\ \A depth \in 0 .. MaxDepth :
                  below[<<i, depth>>] = FlattenSeq(Part(b, i, [j \in b.items |-> below[<<j, depth + 1>>]]))
    BY DEF Grows
  <2>1. DeeperAt(b, below, i)
    BY DeeperIs
  <2>. QED
    BY <1>10, <2>1 DEF DeeperAt
<1>. QED
  BY <1>11, <1>12

\* What is listed below a root is found by its path.
LEMMA VisitedReached ==
    ASSUME NEW b, IsForest(b), NEW root \in b.items, b.path[root] = <<>>
    PROVE Visited(b, root) \in Seq(Reached(b, root))
<1> DEFINE M == MaxDepth + 1
           D == Reached(b, root)
           Found(i) == FindByPath(b, root, b.path[i]) = i
<1>1. MaxDepth \in Nat
  BY MaxDepthNat
<1>2. PICK below : Grows(below, b) /\ Visited(b, root) = below[<<root, 0>>]
  BY VisitedUnfolds
<1> DEFINE T == {n \in Nat : n <= M => \A i \in b.items : Found(i) => below[<<i, M - n>>] \in Seq(D)}
<1>3. 0 \in T
  <2>1. M - 0 = MaxDepth + 1
    BY <1>1
  <2>2. \A i \in b.items : below[<<i, M - 0>>] = <<>>
    BY <1>2, <2>1 DEF Grows
  <2>3. <<>> \in Seq(D)
    <3>. HIDE DEF D
    <3>. QED
      OBVIOUS
  <2>. QED
    BY <2>2, <2>3
<1>4. ASSUME NEW n \in Nat, n \in T, n + 1 <= M, NEW i \in b.items, Found(i)
      PROVE below[<<i, M - (n + 1)>>] \in Seq(D)
  <2> DEFINE depth == M - (n + 1)
             v == [j \in b.items |-> below[<<j, depth + 1>>]]
  <2>1. depth \in 0 .. MaxDepth /\ depth + 1 = M - n /\ n <= M
    BY <1>1, <1>4
  <2>2. below[<<i, depth>>] = FlattenSeq(Part(b, i, v))
    BY <1>2, <2>1 DEF Grows
  <2>3. ASSUME NEW k \in DOMAIN b.kids[i], b.kids[i][k] \in b.named
        PROVE b.kids[i][k] \in D /\ v[b.kids[i][k]] \in Seq(D)
    <3>1. b.kids[i][k] \in b.items /\ b.path[b.kids[i][k]] # <<>>
      BY Children DEF Child
    <3>2. Found(b.kids[i][k])
      BY <1>4, <2>3, FindNext
    <3>3. b.kids[i][k] \in D
      BY <2>3, <3>1, <3>2 DEF Reached
    <3>4. below[<<b.kids[i][k], M - n>>] \in Seq(D)
      BY <1>4, <2>1, <3>1, <3>2
    <3>5. v[b.kids[i][k]] = below[<<b.kids[i][k], M - n>>]
      BY <2>1, <3>1
    <3>. QED
      BY <3>3, <3>4, <3>5
  <2>4. FlattenSeq(Part(b, i, v)) \in Seq(D)
    <3>. HIDE DEF D, v
    <3>. QED
      BY <2>3, PartTyped
  <2>. QED
    BY <2>2, <2>4
<1>5. ASSUME NEW n \in Nat, n \in T PROVE n + 1 \in T
  <2>. HIDE DEF D, M, Found
  <2>. QED
    BY <1>4, <1>5
<1>6. \A n \in Nat : n \in T
  <2>. HIDE DEF T
  <2>. QED
    BY <1>3, <1>5, Induction
<1>7. M \in Nat /\ M <= M /\ M - M = 0 /\ M \in T
  BY <1>1, <1>6
<1>8. Found(root)
  <2>1. <<>> \in Seq(Name) /\ Len(<<>>) = 0 /\ b.path[root] = <<>>
    OBVIOUS
  <2>2. PICK at : Iterates(at, 0, Places(b), root, Steps(b, <<>>)) /\ FindByPath(b, root, <<>>) = at[0]
    BY <2>1, FindUnfolds
  <2>. QED
    BY <2>1, <2>2 DEF Iterates
<1>9. below[<<root, 0>>] \in Seq(D)
  <2>. HIDE DEF D, Found
  <2>. QED
    BY <1>7, <1>8
<1>. QED
  BY <1>2, <1>9

\* The attributes of a category are a sequence.
LEMMA AttributesTyped ==
    ASSUME NEW category
    PROVE \E S : Attributes(category) \in Seq(S)
<1> DEFINE S == {"max_for_live", "user_library", "audio_effects", "midi_effects", "instruments", CategoryMap[category]}
           other == CategoryMap[category]
<1>1. <<"max_for_live", "user_library">> \in Seq(S)
  OBVIOUS
<1>2. <<"max_for_live", "audio_effects", "midi_effects", "instruments">> \in Seq(S)
  OBVIOUS
<1>3. <<CategoryMap[category]>> \in Seq(S)
  <2>1. other \in S
    OBVIOUS
  <2>2. <<other>> \in Seq(S)
    <3>. HIDE DEF S, other
    <3>. QED
      BY <2>1
  <2>. QED
    BY <2>2
<1>4. \/ Attributes(category) = <<"max_for_live", "user_library">>
      \/ Attributes(category) = <<"max_for_live", "audio_effects", "midi_effects", "instruments">>
      \/ Attributes(category) = <<CategoryMap[category]>>
  BY DEF Attributes
<1>5. Attributes(category) \in Seq(S)
  <2>. HIDE DEF S
  <2>. QED
    BY <1>1, <1>2, <1>3, <1>4
<1>. QED
  BY <1>5

\* The items of a category below the root of an attribute.
From(b, attr, category, stems) ==
    {i \in Reached(b, b.root[attr]) :
        /\ \E k \in DOMAIN Visited(b, b.root[attr]) : Visited(b, b.root[attr])[k] = i
        /\ i \in Wanted(b, category, stems)
        /\ AcceptedFrom(attr, b.path[i], category, stems)}

\* The items of a category.
ItemsOf(b, category, stems) ==
    {i \in b.items : \E k \in DOMAIN Attributes(category) :
        /\ Attributes(category)[k] \in DOMAIN b.root
        /\ i \in From(b, Attributes(category)[k], category, stems)}

\* The candidates from the root of an attribute.
LEMMA CandidatesAre ==
    ASSUME NEW b, IsForest(b), NEW attr \in DOMAIN b.root, NEW category, NEW stems
    PROVE Candidates(b, attr, category, stems) \in Seq(From(b, attr, category, stems))
<1> DEFINE root == b.root[attr]
           seen == Visited(b, root)
           S == {i \in Reached(b, root) : \E k \in DOMAIN seen : seen[k] = i}
           good == {i \in Wanted(b, category, stems) : AcceptedFrom(attr, b.path[i], category, stems)}
<1>1. root \in b.items /\ b.path[root] = <<>>
  BY DEF IsForest
<1>2. seen \in Seq(Reached(b, root))
  BY <1>1, VisitedReached
<1>3. seen \in Seq(S)
  <2>1. Len(seen) \in Nat /\ seen = [k \in 1 .. Len(seen) |-> seen[k]] /\ DOMAIN seen = 1 .. Len(seen)
        /\ \A k \in 1 .. Len(seen) : seen[k] \in Reached(b, root)
    <3>. HIDE DEF seen, root
    <3>. QED
      BY <1>2
  <2>2. \A k \in 1 .. Len(seen) : seen[k] \in S
    BY <2>1
  <2>. HIDE DEF seen, S
  <2>. QED
    BY <2>1, <2>2, IsSequence
<1>4. Picked(seen, good) \in Seq(S \cap good)
  <2>. HIDE DEF seen, S, good
  <2>. QED
    BY <1>3, PickedAre
<1>5. S \cap good = From(b, attr, category, stems)
  BY DEF From
<1>6. Candidates(b, attr, category, stems) = Picked(seen, good)
  BY DEF Candidates
<1>. HIDE DEF S, good, seen
<1>. QED
  BY <1>4, <1>5, <1>6

\* What a category lists are paths of its items.
LEMMA CollectedAre ==
    ASSUME NEW b, IsForest(b), NEW category, NEW stems
    PROVE Collected(b, category, stems) \in Seq({b.path[i] : i \in ItemsOf(b, category, stems)})
<1> DEFINE attrs == Attributes(category)
           n == Len(attrs)
           D == ItemsOf(b, category, stems)
           P == {b.path[i] : i \in D}
           seqs == [k \in DOMAIN attrs |-> Candidates(b, attrs[k], category, stems)]
           found == FlattenSeq(seqs)
           paths == [k \in DOMAIN found |-> b.path[found[k]]]
<1>1. n \in Nat /\ DOMAIN attrs = 1 .. n
  <2>1. PICK S : attrs \in Seq(S)
    BY AttributesTyped
  <2>. HIDE DEF attrs
  <2>. QED
    BY <2>1
<1>2. ASSUME NEW k \in 1 .. n PROVE Candidates(b, attrs[k], category, stems) \in Seq(D)
  <2>1. CASE attrs[k] \notin DOMAIN b.root
    <3>1. Candidates(b, attrs[k], category, stems) = <<>>
      BY <2>1 DEF Candidates
    <3>. HIDE DEF D
    <3>. QED
      BY <3>1
  <2>2. CASE attrs[k] \in DOMAIN b.root
    <3>1. Candidates(b, attrs[k], category, stems) \in Seq(From(b, attrs[k], category, stems))
      BY <2>2, CandidatesAre
    <3>2. From(b, attrs[k], category, stems) \subseteq D
      BY <1>1, <2>2 DEF From, Reached, ItemsOf
    <3>. HIDE DEF D, attrs
    <3>. QED
      BY <3>1, <3>2
  <2>. QED
    BY <2>1, <2>2
<1>3. seqs \in Seq(Seq(D))
  <2>1. seqs = [k \in 1 .. n |-> seqs[k]] /\ \A k \in 1 .. n : seqs[k] \in Seq(D)
    BY <1>1, <1>2
  <2>. HIDE DEF seqs, D
  <2>. QED
    BY <1>1, <2>1, IsSequence
<1>4. found \in Seq(D)
  <2>. HIDE DEF seqs, D
  <2>. QED
    BY <1>3, FlattenTyped
<1>5. paths \in Seq(P)
  <2>1. Len(found) \in Nat /\ DOMAIN found = 1 .. Len(found) /\ \A k \in 1 .. Len(found) : found[k] \in D
    <3>. HIDE DEF found, D
    <3>. QED
      BY <1>4
  <2>2. paths = [k \in 1 .. Len(found) |-> paths[k]] /\ \A k \in 1 .. Len(found) : paths[k] \in P
    <3>. HIDE DEF found, D
    <3>. QED
      BY <2>1
  <2>. HIDE DEF paths, P, found
  <2>. QED
    BY <2>1, <2>2, IsSequence
<1>6. Unique(paths, category) \in Seq(P)
  <2>. HIDE DEF paths, P
  <2>. QED
    BY <1>5, UniqueAre
<1>7. Collected(b, category, stems) = Unique(paths, category)
  BY DEF Collected
<1>. HIDE DEF P, paths
<1>8. Collected(b, category, stems) \in Seq(P)
  BY <1>6, <1>7
<1>. QED
  BY <1>8 DEF P

\* What is found below a root, by a path or by a name, is what was asked for.
LEMMA FoundFrom ==
    ASSUME NEW b, IsForest(b), NEW attr \in DOMAIN b.root, NEW category, NEW stems,
           NEW p \in Seq(Name), p # <<>>, FindFrom(b, attr, p, category, stems) # NoItem
    PROVE LET target == FindFrom(b, attr, p, category, stems) IN
          /\ target \in b.items
          /\ IF Len(p) > 1 THEN b.path[target] = p /\ target \in b.named
             ELSE target \in b.loadable /\ SameName(Leaf(b.path[target]), p[1])
<1> DEFINE root == b.root[attr]
           target == FindFrom(b, attr, p, category, stems)
<1>1. root \in b.items /\ b.path[root] = <<>>
  BY DEF IsForest
<1>2. target # NoItem /\ target = FindInRoot(b, attr, p, category, stems)
  BY DEF FindFrom
<1>3. ASSUME Len(p) > 1 PROVE target \in b.items /\ b.path[target] = p /\ target \in b.named
  <2>1. target = FindByPath(b, root, p)
    BY <1>2, <1>3 DEF FindInRoot
  <2>. HIDE DEF target, root
  <2>. QED
    BY <1>1, <1>2, <2>1, FindSound
<1>4. ASSUME ~(Len(p) > 1) PROVE target \in b.items /\ target \in b.loadable /\ SameName(Leaf(b.path[target]), p[1])
  <2> DEFINE good == {i \in Wanted(b, category, stems) : SameName(Leaf(b.path[i]), p[1])}
  <2>1. target = First(Visited(b, root), good)
    BY <1>2, <1>4 DEF FindInRoot, FindByName
  <2>2. NoItem \notin good /\ good \subseteq b.items
    BY DEF IsForest, Wanted
  <2>3. Visited(b, root) \in Seq(Reached(b, root))
    BY <1>1, VisitedReached
  <2>4. target \in good
    <3>. HIDE DEF good, target, root
    <3>. QED
      BY <1>2, <2>1, <2>2, <2>3, FirstIs
  <2>5. target \in b.loadable /\ SameName(Leaf(b.path[target]), p[1])
    <3>. HIDE DEF target
    <3>. QED
      BY <2>4 DEF Wanted
  <2>. HIDE DEF target, good
  <2>. QED
    BY <2>2, <2>4, <2>5
<1>. QED
  BY <1>3, <1>4

\* An item of a category is found below its root.
LEMMA ItemFound ==
    ASSUME NEW b, IsForest(b), NEW attr \in DOMAIN b.root, NEW category, NEW stems,
           NEW i \in From(b, attr, category, stems)
    PROVE FindFrom(b, attr, b.path[i], category, stems) # NoItem
<1> DEFINE root == b.root[attr]
           p == b.path[i]
<1>1. root \in b.items /\ b.path[root] = <<>>
  BY DEF IsForest
<1>2. /\ i \in b.items /\ i \in b.named /\ p # <<>> /\ FindByPath(b, root, p) = i
      /\ \E k \in DOMAIN Visited(b, root) : Visited(b, root)[k] = i
      /\ i \in Wanted(b, category, stems) /\ AcceptedFrom(attr, p, category, stems)
  BY DEF From, Reached
<1>3. p \in Seq(Name) /\ NoItem \notin b.items
  BY <1>2 DEF IsForest, Name
<1>4. Matches(p, category, stems)
  BY <1>2 DEF Wanted
<1>5. CASE Len(p) > 1
  <2>1. FindInRoot(b, attr, p, category, stems) = i
    BY <1>2, <1>3, <1>4, <1>5 DEF FindInRoot
  <2>. QED
    BY <1>2, <1>3, <2>1 DEF FindFrom
<1>6. CASE ~(Len(p) > 1)
  <2> DEFINE good == {j \in Wanted(b, category, stems) : SameName(Leaf(b.path[j]), p[1])}
             target == First(Visited(b, root), good)
  <2>1. Len(p) = 1 /\ Leaf(p) = p[1]
    <3>1. Len(p) \in Nat /\ Len(p) # 0
      <4>. HIDE DEF p
      <4>. QED
        BY <1>2, <1>3
    <3>2. \A m \in Nat : m # 0 /\ ~(m > 1) => m = 1
      OBVIOUS
    <3>3. Len(p) = 1
      <4>. HIDE DEF p
      <4>. QED
        BY <1>6, <3>1, <3>2
    <3>. QED
      BY <3>3 DEF Leaf
  <2>2. i \in good
    BY <1>2, <2>1 DEF SameName
  <2>3. NoItem \notin good
    BY DEF IsForest, Wanted
  <2>4. Visited(b, root) \in Seq(Reached(b, root))
    BY <1>1, VisitedReached
  <2>5. target # NoItem /\ target \in good
    <3>1. PICK k \in DOMAIN Visited(b, root) : Visited(b, root)[k] \in good
      BY <1>2, <2>2
    <3>. HIDE DEF good, root
    <3>. QED
      BY <2>3, <2>4, <3>1, FirstIs
  <2>6. Matches(b.path[target], category, stems) /\ SameName(Leaf(b.path[target]), Leaf(p))
    <3>. HIDE DEF target, p
    <3>. QED
      BY <2>1, <2>5 DEF Wanted
  <2>7. FindInRoot(b, attr, p, category, stems) = target
    <3>1. FindByName(b, root, p[1], category, stems) = target
      BY DEF FindByName
    <3>. HIDE DEF target, p
    <3>. QED
      BY <1>6, <2>5, <2>6, <3>1 DEF FindInRoot
  <2>8. AcceptedFrom(attr, b.path[target], category, stems)
    <3>. HIDE DEF target, p
    <3>. QED
      BY <1>2, <2>6 DEF AcceptedFrom, MaxStem, SameName
  <2>9. FindFrom(b, attr, p, category, stems) # NoItem
    <3>. HIDE DEF target, p
    <3>. QED
      BY <2>5, <2>7, <2>8 DEF FindFrom
  <2>. QED
    BY <2>9
<1>. QED
  BY <1>5, <1>6

\* The paths of the items of a category load them, or another item of the name.
Loads(b, path, category, stems) ==
    LET target == FindLoadable(b, path, category, stems)
    IN /\ target # NoItem
       /\ target \in b.loadable
       /\ IF Len(path) > 1 THEN b.path[target] = path ELSE SameName(Leaf(b.path[target]), path[1])

\* The first root that has the path of an item has a loadable item of this path, or name.
LEMMA ItemsLoad ==
    ASSUME NEW b, IsForest(b), PathsTellLoadable(b), NEW category, NEW stems,
           NEW i \in ItemsOf(b, category, stems)
    PROVE Loads(b, b.path[i], category, stems)
<1> DEFINE p == b.path[i]
           attrs == Attributes(category)
           n == Len(attrs)
           found == [k \in DOMAIN attrs |-> FindFrom(b, attrs[k], p, category, stems)]
           target == First(found, b.items)
<1>1. n \in Nat /\ DOMAIN attrs = 1 .. n
  <2>1. PICK S : attrs \in Seq(S)
    BY AttributesTyped
  <2>. HIDE DEF attrs
  <2>. QED
    BY <2>1
<1>2. PICK m \in 1 .. n : attrs[m] \in DOMAIN b.root /\ i \in From(b, attrs[m], category, stems)
  BY <1>1 DEF ItemsOf
<1>3. i \in b.items /\ p # <<>> /\ i \in b.named /\ i \in b.loadable
  BY <1>2 DEF From, Reached, Wanted
<1>4. p \in Seq(Name) /\ NoItem \notin b.items
  BY <1>3 DEF IsForest, Name
<1>5. ASSUME NEW k \in 1 .. n, found[k] # NoItem
      PROVE /\ found[k] \in b.items
            /\ IF Len(p) > 1 THEN b.path[found[k]] = p /\ found[k] \in b.named
               ELSE found[k] \in b.loadable /\ SameName(Leaf(b.path[found[k]]), p[1])
  <2>1. found[k] = FindFrom(b, attrs[k], p, category, stems)
    BY <1>1
  <2>2. attrs[k] \in DOMAIN b.root
    BY <1>5, <2>1 DEF FindFrom
  <2>. HIDE DEF found, p, attrs
  <2>. QED
    BY <1>3, <1>4, <1>5, <2>1, <2>2, FoundFrom
<1>6. found[m] # NoItem
  <2>1. found[m] = FindFrom(b, attrs[m], p, category, stems)
    BY <1>1
  <2>. QED
    BY <1>2, <2>1, ItemFound
<1>7. found \in Seq(Places(b))
  <2>1. found = [k \in 1 .. n |-> found[k]] /\ \A k \in 1 .. n : found[k] \in Places(b)
    BY <1>1, <1>5 DEF Places
  <2>. HIDE DEF found
  <2>. QED
    BY <1>1, <2>1, IsSequence
<1>8. PICK k \in 1 .. n : target = found[k] /\ found[k] \in b.items /\ target # NoItem
  <2>1. DOMAIN found = 1 .. n /\ found[m] \in b.items
    BY <1>1, <1>5, <1>6
  <2>. HIDE DEF found
  <2>. QED
    BY <1>4, <1>7, <2>1, FirstIs
<1>9. target \in b.loadable /\ (IF Len(p) > 1 THEN b.path[target] = p ELSE SameName(Leaf(b.path[target]), p[1]))
  <2>1. /\ found[k] # NoItem
        /\ IF Len(p) > 1 THEN b.path[found[k]] = p /\ found[k] \in b.named
           ELSE found[k] \in b.loadable /\ SameName(Leaf(b.path[found[k]]), p[1])
    BY <1>5, <1>8
  <2>2. CASE Len(p) > 1
    <3>1. i \in b.named \cap b.loadable /\ found[k] \in b.named /\ b.path[i] = b.path[found[k]] /\ Len(b.path[i]) > 1
      BY <1>3, <2>1, <2>2
    <3>2. found[k] \in b.loadable
      <4>. HIDE DEF found
      <4>. QED
        BY <3>1 DEF PathsTellLoadable
    <3>. HIDE DEF found, target
    <3>. QED
      BY <1>8, <2>1, <2>2, <3>2
  <2>3. CASE ~(Len(p) > 1)
    <3>. HIDE DEF found, target
    <3>. QED
      BY <1>8, <2>1, <2>3
  <2>. QED
    BY <2>2, <2>3
<1>10. FindLoadable(b, p, category, stems) = target
  BY DEF FindLoadable
<1>11. Loads(b, p, category, stems)
  <2>. HIDE DEF target, p
  <2>. QED
    BY <1>8, <1>9, <1>10 DEF Loads
<1>. QED
  BY <1>11

\* A client that is told the paths of a category can load them.

\* What is listed of a category can be loaded.
Loadable == \A k \in DOMAIN listing.paths : Loads(browser, listing.paths[k], listing.category, known)

\* The listing is told; it is void before Live shows other items.
LEMMA ListLoads == ASSUME NEW c, browser \in Browsers \cup {NoBrowser}, List(c) PROVE Loadable'
<1>1. IsForest(browser) /\ PathsTellLoadable(browser)
  BY BrowsersAreForests
<1>2. UNCHANGED <<browser, known>>
  BY DEF List
<1>3. CASE Offered(browser, c)
  <2> DEFINE paths == Collected(browser, c, known)
             P == {browser.path[i] : i \in ItemsOf(browser, c, known)}
  <2>1. listing' = [category |-> c, paths |-> paths]
    BY <1>3 DEF List
  <2>2. paths \in Seq(P)
    BY <1>1, CollectedAre
  <2>3. \A k \in DOMAIN paths : paths[k] \in P
    <3>. HIDE DEF paths, P
    <3>. QED
      BY <2>2
  <2>4. \A path \in P : Loads(browser, path, c, known)
    BY <1>1, ItemsLoad
  <2>5. \A k \in DOMAIN paths : Loads(browser, paths[k], c, known)
    <3>. HIDE DEF paths, P
    <3>. QED
      BY <2>3, <2>4
  <2>6. listing'.category = c /\ listing'.paths = paths
    BY <2>1
  <2>. HIDE DEF paths
  <2>. QED
    BY <1>2, <2>5, <2>6 DEF Loadable
<1>4. CASE ~Offered(browser, c)
  <2>1. listing'.paths = <<>>
    BY <1>4 DEF List, NoListing
  <2>. QED
    BY <2>1 DEF Loadable
<1>. QED
  BY <1>3, <1>4

\* Every other step leaves the listing and the tree alone, or voids the listing.
LEMMA StepLoads == ASSUME LoadTypeOK, Loadable, [LoadNext]_loadVars PROVE Loadable'
<1>1. ASSUME NEW c \in Categories, List(c) PROVE Loadable'
  BY <1>1, ListLoads DEF LoadTypeOK
<1>2. ASSUME Refresh \/ \E r \in LoadRequests : Ask(r) PROVE Loadable'
  <2>1. listing'.paths = <<>>
    BY <1>2 DEF Refresh, Ask, NoListing
  <2>. QED
    BY <2>1 DEF Loadable
<1>3. ASSUME UNCHANGED treeVars PROVE Loadable'
  BY <1>3 DEF Loadable, treeVars
<1>4. \/ \E c \in Categories : List(c)
      \/ Refresh \/ \E r \in LoadRequests : Ask(r)
      \/ UNCHANGED treeVars
  BY DEF LoadNext, loadVars, Edit, Check, SelectTrack, SelectAnchor, SetInsertMode, Count, LoadItem, Restore, Report
<1>. QED
  BY <1>1, <1>2, <1>3, <1>4

\* Whatever a client has been told a category holds, it can load by the path it was
\* given, for any browser that is a forest and tells loadable items by their paths.
THEOREM ListedPathsAlwaysLoad == LoadSpec => []ListedPathsLoad
<1>1. LoadInit => Loadable
  BY DEF LoadInit, Loadable, NoListing
<1>2. LoadTypeOK /\ Loadable /\ [LoadNext]_loadVars => Loadable'
  BY StepLoads
<1>3. Loadable => ListedPathsLoad
  BY DEF Loadable, Loads, ListedPathsLoad
<1>4. LoadSpec => []LoadTypeOK
  BY LoadTypes
<1>. QED
  BY <1>1, <1>2, <1>3, <1>4, PTL DEF LoadSpec

------------------------------------------------------------
(* BrowserMetadata.                                                               *)

Digest == Seq(Nat \X Nat)
KeyType == [file : Nat, size : Nat, stamp : Nat, id : Nat]
LookType == [file : Nat, by : {"none", "path", "stem"}, size : Nat, stamp : Nat, id : Nat,
             handle : Nat, digest : Digest, cached : BOOLEAN]
Statuses == {"file_backed", "hash_only", "ambiguous_file_match", "stale_missing_file", "path_only"}
ItemType == [path : Nat, status : Statuses, hash : {"none", "pending", "ready"},
             key : KeyType \cup {<<>>}, digest : Digest]
ListingType == Listings \cup {NoPage.listing}

\* A stamp is that of a write that has been.
DiskOK ==
    /\ inode \in Seq([size : Nat, stamp : Nat])
    /\ disk \in [Files -> 0 .. Len(inode)]
    /\ \A i \in 1 .. Len(inode) : inode[i].stamp <= writes

\* While a page is made there is a path to go on with.
PageOK ==
    /\ page \in [listing : ListingType, offset : Nat, limit : Nat, items : Seq(ItemType)]
    /\ pageReply \in [items : Seq(ItemType), next : Nat \cup {NoOffset}]
    /\ metaPc # "idle" => page.offset + Len(page.items) < Len(page.listing.paths)
    /\ \A s \in DOMAIN stemIndex : stemIndex[s] \subseteq Files

\* What was seen of a file is from before now.
LookOK ==
    /\ looked \in LookType
    /\ metaPc \notin {"idle", "resolve"} => looked.file \in Files
    /\ looked.stamp <= writes /\ looked.id <= Len(inode)
    /\ metaPc \notin {"restat", "reidentify"} => ~looked.cached

MetaTypeInv == MetaTypeOK /\ DiskOK /\ PageOK /\ LookOK

\* The content of the inode that is read, if its stamp is still the one first seen.
StampStands == inode[looked.handle].stamp = looked.stamp
IdStands == looked.id # Absent /\ disk[looked.file] = looked.id
Met == <<looked.handle, looked.stamp>>

\* A stamp that was seen and stands now has stood all the time, since each write
\* gives one that was never there; so has an identity, since each replacement is a
\* new inode.
DigestOK ==
    /\ metaPc \in {"read", "restat"} /\ ~looked.cached => looked.handle \in 1 .. Len(inode)
    /\ metaPc = "read" /\ StampStands => looked.digest = <<Met>>
    /\ metaPc = "restat" /\ ~looked.cached /\ StampStands => looked.digest = <<Met, Met>>
    /\ metaPc \in {"read", "restat"} /\ ~looked.cached /\ IdStands => looked.handle = looked.id
    /\ metaPc = "reidentify" /\ ~looked.cached /\ IdStands => IsContent(Key, looked.digest)
    /\ metaPc \in {"restat", "reidentify"} /\ looked.cached /\ looked.id # Absent => IsContent(Key, looked.digest)

GoodItem(item) == item.status = "file_backed" /\ item.hash = "ready" => IsContent(item.key, item.digest)

CacheOK ==
    \A key \in DOMAIN cache : cache[key] \in Digest /\ (key.id # Absent => IsContent(key, cache[key]))

ItemsOK ==
    /\ \A k \in DOMAIN page.items : GoodItem(page.items[k])
    /\ \A k \in DOMAIN pageReply.items : GoodItem(pageReply.items[k])

Waits(item) == item.hash = "pending" => item.key.size > SingleHash \/ hashed > 0

Seen == {"identify", "lookup", "open", "read", "restat", "reidentify"}
Charged == metaPc \in {"open", "read", "restat", "reidentify"} /\ ~looked.cached

\* As long as the files stand still, what was seen of a file is so, and the budget is
\* whole until a file is charged, which will then be hashed.
Quiet ==
    quiet =>
        /\ metaPc \in Seen => /\ disk[looked.file] # Absent
                              /\ StatOf(looked.file) = [size |-> looked.size, stamp |-> looked.stamp]
        /\ metaPc \in Seen \ {"identify"} => looked.id = disk[looked.file]
        /\ hashed = 0 /\ ~Charged => hashLeft = HashPerCall
        /\ \A k \in DOMAIN page.items : Waits(page.items[k])
        /\ metaPc = "idle" => \A k \in DOMAIN pageReply.items : Waits(pageReply.items[k])

MetaIInv == MetaTypeInv /\ DigestOK /\ CacheOK /\ ItemsOK /\ Quiet

\* An item is added or held back; what is reported is what the page has.
LEMMA Added ==
    ASSUME PageOK, metaPc # "idle", NEW item \in ItemType, AddItem(item), UNCHANGED stemIndex
    PROVE  /\ PageOK' /\ looked' = NoFile /\ metaPc' \in {"idle", "resolve"}
           /\ \A k \in DOMAIN page'.items : page'.items[k] = item \/ \E j \in DOMAIN page.items : page'.items[k] = page.items[j]
           /\ \/ metaPc' = "idle" /\ pageReply'.items = page'.items
              \/ metaPc' = "resolve" /\ pageReply' = pageReply
<1> DEFINE items == Append(page.items, item)
           full == page.items # <<>> /\ TooLong(items)
           taken == IF full THEN page.items ELSE items
           upTo == page.offset + Len(taken)
           over == full \/ Len(taken) = page.limit \/ upTo = Len(page.listing.paths)
<1>1. page.items \in Seq(ItemType) /\ page.offset \in Nat /\ page.limit \in Nat /\ page.listing \in ListingType
  BY DEF PageOK
<1>2. items \in Seq(ItemType) /\ Len(items) = Len(page.items) + 1 /\ Len(page.items) \in Nat
      /\ \A k \in DOMAIN items : items[k] = item \/ \E j \in DOMAIN page.items : items[k] = page.items[j]
  <2> HIDE DEF items
  <2>1. items = Append(page.items, item)
    BY DEF items
  <2> QED
    BY <1>1, <2>1
<1>3. page' = [page EXCEPT !.items = taken]
  BY DEF AddItem
<1>4. \/ over /\ Answer(taken, Following(upTo, page.listing))
      \/ ~over /\ metaPc' = "resolve" /\ looked' = NoFile /\ UNCHANGED <<pageReply, read>>
  BY DEF AddItem
<1> HIDE DEF items, full
<1>5. taken \in Seq(ItemType) /\ Len(taken) \in {Len(page.items), Len(page.items) + 1}
      /\ \A k \in DOMAIN taken : taken[k] = item \/ \E j \in DOMAIN page.items : taken[k] = page.items[j]
  BY <1>1, <1>2
<1> HIDE DEF taken
<1>6. page' \in [listing : ListingType, offset : Nat, limit : Nat, items : Seq(ItemType)] /\ page'.items = taken
      /\ page'.offset = page.offset /\ page'.listing = page.listing
  BY <1>1, <1>3, <1>5 DEF PageOK
<1>7. Following(upTo, page.listing) \in Nat \cup {NoOffset}
  BY <1>1, <1>5 DEF Following
<1>8. CASE over /\ Answer(taken, Following(upTo, page.listing))
  BY <1>5, <1>6, <1>7, <1>8 DEF Answer, PageOK
<1>9. CASE ~over /\ metaPc' = "resolve" /\ looked' = NoFile /\ UNCHANGED <<pageReply, read>>
  <2>1. upTo # Len(page.listing.paths)
    BY <1>9, Zenon
  <2>4. upTo = page.offset + Len(page.items) \/ upTo = page.offset + Len(page.items) + 1
    <3>1. Len(taken) = Len(page.items) \/ Len(taken) = Len(page.items) + 1
      BY <1>5
    <3> HIDE DEF over
    <3> QED
      BY <1>1, <1>2, <3>1, SMTT(30)
  <2> HIDE DEF upTo, over
  <2>2. Len(page.listing.paths) \in Nat
    BY <1>1, ListingsAssumption DEF ListingType, NoPage
  <2>3. upTo < Len(page.listing.paths)
    BY <1>1, <1>2, <2>1, <2>2, <2>4 DEF PageOK
  <2> QED
    BY <1>5, <1>6, <1>9, <2>3 DEF PageOK, upTo
<1> QED
  BY <1>4, <1>8, <1>9

\* A page that is open has a path to look at.
LEMMA ListedTyped ==
    ASSUME PageOK, metaPc # "idle"
    PROVE  ListedPath \in Nat
<1>1. page.listing.paths \in Seq(Nat) /\ page.offset \in Nat /\ Len(page.items) \in Nat
  BY ListingsAssumption DEF PageOK, ListingType, NoPage
<1>2. page.offset + Len(page.items) + 1 \in 1 .. Len(page.listing.paths)
  BY <1>1 DEF PageOK
<1> QED
  BY <1>1, <1>2 DEF ListedPath

\* The item of a path without a file.
LEMMA PathItemTyped ==
    ASSUME PageOK, metaPc # "idle", NEW status \in Statuses
    PROVE  PathItem(status) \in ItemType /\ PathItem(status).hash = "none"
<1>1. <<>> \in Digest
  BY DEF Digest
<1> QED
  BY <1>1, ListedTyped DEF PathItem, ItemType

\* The item of a file has the key and the digest that were found.
LEMMA FileItemTyped ==
    ASSUME PageOK, LookOK, metaPc # "idle", NEW hash \in {"pending", "ready"}, NEW digest \in Digest
    PROVE  LET item == FileItem(hash, digest)
           IN /\ item \in ItemType /\ item.hash = hash /\ item.key = Key /\ item.digest = digest
              /\ item.status = "file_backed" => looked.id # Absent
<1>1. Key \in KeyType
  BY DEF LookOK, LookType, Key, KeyType
<1>2. ListedPath \in Nat
  BY ListedTyped
<1> DEFINE status == IF looked.id = Absent THEN "hash_only" ELSE "file_backed"
<1>3. status \in Statuses /\ (status = "file_backed" => looked.id # Absent)
  BY DEF Statuses
<1>4. FileItem(hash, digest) = [path |-> ListedPath, status |-> status, hash |-> hash, key |-> Key, digest |-> digest]
  BY DEF FileItem
<1> HIDE DEF status
<1> QED
  BY <1>1, <1>2, <1>3, <1>4 DEF ItemType

\* A look at no file has seen nothing.
LEMMA NoFileTyped == NoFile \in LookType /\ ~NoFile.cached /\ NoFile.id = 0 /\ NoFile.stamp = 0
<1>1. <<>> \in Digest
  BY DEF Digest
<1> QED
  BY <1>1 DEF NoFile, LookType, Absent

\* A step that adds an item to the page.
LEMMA ItemStep ==
    ASSUME MetaIInv, metaPc # "idle", NEW item \in ItemType, AddItem(item), GoodItem(item), CacheOK',
           hashed' \in {hashed, hashed + 1},
           UNCHANGED <<disk, inode, stemIndex, hashLeft, quiet, writes, pages>>,
           quiet /\ item.hash = "pending" => item.key.size > SingleHash \/ hashed' > 0,
           quiet /\ hashed' = 0 => hashLeft = HashPerCall
    PROVE  MetaIInv'
<1>1. /\ PageOK' /\ looked' = NoFile /\ metaPc' \in {"idle", "resolve"}
      /\ \A k \in DOMAIN page'.items : page'.items[k] = item \/ \E j \in DOMAIN page.items : page'.items[k] = page.items[j]
      /\ \/ metaPc' = "idle" /\ pageReply'.items = page'.items
         \/ metaPc' = "resolve" /\ pageReply' = pageReply
  BY Added DEF MetaIInv, MetaTypeInv
<1>2. MetaTypeOK'
  BY <1>1 DEF MetaIInv, MetaTypeInv, MetaTypeOK, PageOK
<1>3. DiskOK'
  BY DEF MetaIInv, MetaTypeInv, DiskOK
<1>4. LookOK'
  BY <1>1, NoFileTyped DEF MetaIInv, MetaTypeInv, LookOK, DiskOK, MetaTypeOK
<1>5. DigestOK'
  BY <1>1 DEF DigestOK
<1>6. ItemsOK'
  BY <1>1 DEF MetaIInv, ItemsOK
<1>7. Quiet'
  <2> SUFFICES ASSUME quiet PROVE Quiet'
    BY DEF Quiet
  <2>1. hashed \in Nat /\ Quiet
    BY DEF MetaIInv, MetaTypeInv, MetaTypeOK
  <2>2. (\A k \in DOMAIN page.items : Waits(page.items[k]))'
    <3>1. \A j \in DOMAIN page.items : Waits(page.items[j]) /\ (page.items[j].hash = "pending" => page.items[j].key.size > SingleHash \/ hashed' > 0)
      BY <2>1 DEF Quiet, Waits
    <3> SUFFICES ASSUME NEW k \in DOMAIN page'.items, page'.items[k].hash = "pending"
                 PROVE  page'.items[k].key.size > SingleHash \/ hashed' > 0
      BY DEF Waits
    <3>2. CASE page'.items[k] = item
      BY <3>2
    <3>3. ASSUME NEW j \in DOMAIN page.items, page'.items[k] = page.items[j]
          PROVE  page'.items[k].key.size > SingleHash \/ hashed' > 0
      BY <3>1, <3>3
    <3> QED
      BY <1>1, <3>2, <3>3
  <2>3. (metaPc = "idle" => \A k \in DOMAIN pageReply.items : Waits(pageReply.items[k]))'
    BY <1>1, <2>2 DEF Waits
  <2>4. metaPc' \notin Seen /\ UNCHANGED hashLeft
    BY <1>1 DEF Seen
  <2> QED
    BY <2>2, <2>3, <2>4 DEF Quiet
<1> QED
  BY <1>1, <1>2, <1>3, <1>4, <1>5, <1>6, <1>7 DEF MetaIInv, MetaTypeInv

\* A step that takes a file to be looked at.
LEMMA ExamineStep ==
    ASSUME MetaIInv, metaPc \in {"resolve", "stat"}, NEW f \in Files, NEW by \in {"path", "stem"}, Examine(f, by),
           UNCHANGED <<disk, inode, cache, stemIndex, hashLeft, quiet, hashed, writes, pages>>
    PROVE  MetaIInv'
<1>1. /\ metaPc' = "stat" /\ looked' \in LookType /\ looked'.file = f /\ looked'.stamp = 0 /\ looked'.id = 0 /\ ~looked'.cached
      /\ UNCHANGED <<page, pageReply>>
  <2>1. f \in Nat /\ looked' = [NoFile EXCEPT !.file = f, !.by = by]
    BY FilesAssumption DEF Examine, Files
  <2>2. looked' \in LookType /\ looked'.file = f
    BY <2>1, NoFileTyped DEF LookType
  <2>3. looked'.stamp = 0 /\ looked'.id = 0 /\ ~looked'.cached
    BY <2>1, NoFileTyped DEF LookType
  <2> QED
    BY <2>2, <2>3 DEF Examine
<1>2. MetaTypeOK' /\ DiskOK' /\ PageOK' /\ LookOK'
  <2>1. MetaTypeOK'
    BY <1>1 DEF MetaIInv, MetaTypeInv, MetaTypeOK
  <2>2. DiskOK' /\ PageOK'
    BY <1>1 DEF MetaIInv, MetaTypeInv, DiskOK, PageOK
  <2>3. LookOK'
    <3>1. writes \in Nat /\ Len(inode) \in Nat
      BY DEF MetaIInv, MetaTypeInv, MetaTypeOK, DiskOK
    <3> QED
      BY <1>1, <3>1 DEF LookOK
  <2> QED
    BY <2>1, <2>2, <2>3
<1>3. DigestOK' /\ CacheOK' /\ ItemsOK'
  BY <1>1 DEF MetaIInv, DigestOK, CacheOK, ItemsOK
<1>4. Quiet'
  BY <1>1 DEF MetaIInv, Quiet, Seen, Charged, Waits
<1> QED
  BY <1>2, <1>3, <1>4 DEF MetaIInv, MetaTypeInv

\* A path without a file is added to the page.
LEMMA PathItemStep ==
    ASSUME MetaIInv, metaPc \in {"resolve", "stat"}, NEW status \in Statuses, NEW item, item = PathItem(status), AddItem(item),
           UNCHANGED <<disk, inode, cache, stemIndex, hashLeft, quiet, hashed, writes, pages>>
    PROVE  MetaIInv'
<1>1. item \in ItemType /\ item.hash = "none"
  BY PathItemTyped DEF MetaIInv, MetaTypeInv
<1>2. CacheOK' /\ GoodItem(item)
  BY <1>1 DEF MetaIInv, CacheOK, GoodItem
<1>3. quiet /\ hashed' = 0 => hashLeft = HashPerCall
  BY DEF MetaIInv, Quiet, Charged
<1> QED
  BY <1>1, <1>2, <1>3, ItemStep

\* So is one that is resolved by its stem, or looked at further.
LEMMA ByStemStep ==
    ASSUME MetaIInv, metaPc \in {"resolve", "stat"}, Missing \/ ByStem,
           UNCHANGED <<disk, inode, cache, stemIndex, hashLeft, quiet, hashed, writes, pages>>
    PROVE  MetaIInv'
<1>1. CASE Missing
  <2> DEFINE status == IF ListedPath \in Files THEN "stale_missing_file" ELSE "path_only"
             item == PathItem(status)
  <2>1. status \in Statuses /\ item = PathItem(status) /\ AddItem(item)
    BY <1>1 DEF Missing, Statuses
  <2> HIDE DEF item, status
  <2> QED
    BY <2>1, PathItemStep
<1>2. CASE ByStem /\ ~Missing
  <2>1. CASE AddItem(PathItem("ambiguous_file_match"))
    <3> DEFINE status == "ambiguous_file_match"
               item == PathItem(status)
    <3>1. status \in Statuses /\ item = PathItem(status) /\ AddItem(item)
      BY <2>1 DEF Statuses
    <3> HIDE DEF item, status
    <3> QED
      BY <3>1, PathItemStep
  <2>2. CASE \E f \in StemMatches : Examine(f, "stem")
    <3>1. StemMatches \subseteq Files
      BY DEF StemMatches, MetaIInv, MetaTypeInv, PageOK
    <3> QED
      BY <2>2, <3>1, ExamineStep
  <2> QED
    BY <1>2, <2>1, <2>2 DEF ByStem
<1> QED
  BY <1>1, <1>2

\* A step that learns more of the file.
LEMMA LookStep ==
    ASSUME MetaIInv, LookOK', DigestOK', Quiet', metaPc \in Seen \cup {"stat"}, metaPc' \in Seen,
           hashLeft' \in 0 .. HashPerCall,
           UNCHANGED <<disk, inode, cache, page, stemIndex, pageReply, quiet, hashed, writes, pages>>
    PROVE  MetaIInv'
<1>1. MetaTypeOK'
  BY DEF MetaIInv, MetaTypeInv, MetaTypeOK, LookOK, Seen
<1>2. DiskOK' /\ PageOK' /\ CacheOK' /\ ItemsOK'
  BY DEF MetaIInv, MetaTypeInv, DiskOK, PageOK, CacheOK, ItemsOK, Seen
<1> QED
  BY <1>1, <1>2 DEF MetaIInv, MetaTypeInv

\* A file that is left waiting, for a reason that quiet files do not give.
LEMMA PendingStep ==
    ASSUME MetaIInv, metaPc \in Seen, Pending, quiet => looked.size > SingleHash,
           quiet /\ hashed = 0 => hashLeft = HashPerCall,
           UNCHANGED <<disk, inode, cache, stemIndex, hashLeft, quiet, hashed, writes, pages>>
    PROVE  MetaIInv'
<1> DEFINE item == FileItem("pending", <<>>)
<1>1. <<>> \in Digest /\ metaPc # "idle"
  BY DEF Digest, Seen
<1>2. item \in ItemType /\ item.hash = "pending" /\ item.key = Key
  BY <1>1, FileItemTyped DEF MetaIInv, MetaTypeInv
<1>3. CacheOK' /\ GoodItem(item) /\ item.key.size = looked.size
  BY <1>2 DEF MetaIInv, CacheOK, GoodItem, Key
<1>4. AddItem(item)
  BY DEF Pending
<1> HIDE DEF item
<1> QED
  BY <1>1, <1>2, <1>3, <1>4, ItemStep

------------------------------------------------------------
(* The steps, one by one. *)

\* What another process can do to a file.
LEMMA WriteEffect ==
    ASSUME MetaTypeInv, NEW f \in Files, Write(f)
    PROVE  /\ DiskOK' /\ Len(inode) \in Nat /\ Len(inode') \in Nat /\ Len(inode) <= Len(inode')
           /\ \A i \in 1 .. Len(inode) : inode'[i].stamp \in {inode[i].stamp, writes + 1}
           /\ \A g \in Files : disk'[g] \in {disk[g], Absent, Len(inode) + 1}
           /\ writes \in Nat /\ writes' = writes + 1 /\ writes' <= MaxWrites /\ quiet' = FALSE
           /\ UNCHANGED <<cache, metaPc, page, stemIndex, hashLeft, looked, pageReply, hashed, pages>>
<1> DEFINE Inode == [size : Nat, stamp : Nat]
<1>1. /\ inode \in Seq(Inode) /\ Len(inode) \in Nat /\ writes \in Nat /\ MaxWrites \in Nat
      /\ disk \in [Files -> 0 .. Len(inode)]
      /\ \A i \in 1 .. Len(inode) : inode[i].stamp <= writes /\ inode[i].stamp \in Nat
  <2>1. inode \in Seq(Inode) /\ writes \in 0 .. MaxWrites /\ disk \in [Files -> 0 .. Len(inode)]
        /\ \A i \in 1 .. Len(inode) : inode[i].stamp <= writes
    BY DEF MetaTypeInv, DiskOK, MetaTypeOK
  <2>2. \A i \in 1 .. Len(inode) : inode[i] \in Inode
    <3> HIDE DEF Inode
    <3> QED BY <2>1
  <2> QED
    BY <2>1, <2>2, BoundsAssumption
<1> HIDE DEF Inode
<1>2. writes' = writes + 1 /\ writes' <= MaxWrites /\ quiet' = FALSE
      /\ UNCHANGED <<cache, metaPc, page, stemIndex, hashLeft, looked, pageReply, hashed, pages>>
  BY <1>1 DEF Write
<1>3. PICK size \in Sizes :
       \/ /\ disk[f] # Absent
          /\ inode' = [inode EXCEPT ![disk[f]] = [size |-> size, stamp |-> writes + 1]]
          /\ UNCHANGED disk
       \/ /\ \E stamp \in {0, writes + 1} : inode' = Append(inode, [size |-> size, stamp |-> stamp])
          /\ disk' = [disk EXCEPT ![f] = Len(inode) + 1]
       \/ /\ disk' = [disk EXCEPT ![f] = Absent]
          /\ UNCHANGED inode
  BY DEF Write
<1>4. size \in Nat
  BY FilesAssumption
<1> DEFINE Effect == /\ DiskOK' /\ Len(inode') \in Nat /\ Len(inode) <= Len(inode')
                     /\ \A i \in 1 .. Len(inode) : inode'[i].stamp \in {inode[i].stamp, writes + 1}
                     /\ \A g \in Files : disk'[g] \in {disk[g], Absent, Len(inode) + 1}
<1>5. CASE disk[f] # Absent /\ inode' = [inode EXCEPT ![disk[f]] = [size |-> size, stamp |-> writes + 1]] /\ UNCHANGED disk
  <2> DEFINE new == [size |-> size, stamp |-> writes + 1]
  <2>1. disk[f] \in 1 .. Len(inode) /\ new \in Inode /\ new.stamp = writes + 1
    BY <1>1, <1>4, <1>5 DEF Absent, Inode
  <2>2. inode' \in Seq(Inode) /\ Len(inode') = Len(inode)
        /\ \A i \in 1 .. Len(inode) : inode'[i] = IF i = disk[f] THEN new ELSE inode[i]
    <3> HIDE DEF new
    <3>1. inode' = [inode EXCEPT ![disk[f]] = new]
      BY <1>5 DEF new
    <3> QED
      BY <1>1, <2>1, <3>1
  <2>3. \A i \in 1 .. Len(inode) : inode'[i].stamp = inode[i].stamp \/ inode'[i].stamp = writes + 1
    BY <2>1, <2>2
  <2> HIDE DEF new
  <2>4. \A i \in 1 .. Len(inode') : inode'[i].stamp <= writes + 1
    <3> TAKE i \in 1 .. Len(inode')
    <3>1. i \in 1 .. Len(inode) /\ inode[i].stamp <= writes /\ inode[i].stamp \in Nat
      BY <1>1, <2>2
    <3> QED
      BY <1>1, <2>3, <3>1
  <2> QED
    BY <1>1, <1>2, <1>5, <2>2, <2>3, <2>4 DEF DiskOK, Inode
<1>6. ASSUME NEW stamp \in {0, writes + 1}, inode' = Append(inode, [size |-> size, stamp |-> stamp]),
             disk' = [disk EXCEPT ![f] = Len(inode) + 1]
      PROVE  Effect
  <2> DEFINE new == [size |-> size, stamp |-> stamp]
  <2>1. new \in Inode /\ new.stamp = stamp
    BY <1>1, <1>4 DEF Inode
  <2>2. inode' \in Seq(Inode) /\ Len(inode') = Len(inode) + 1 /\ inode'[Len(inode) + 1] = new
        /\ \A i \in 1 .. Len(inode) : inode'[i] = inode[i]
    <3> HIDE DEF new
    <3>1. inode' = Append(inode, new)
      BY <1>6 DEF new
    <3> QED
      BY <1>1, <2>1, <3>1
  <2>3. \A i \in 1 .. Len(inode') : inode'[i].stamp <= writes + 1
    <3> TAKE i \in 1 .. Len(inode')
    <3>1. CASE i \in 1 .. Len(inode)
      <4>1. inode[i].stamp <= writes /\ inode[i].stamp \in Nat /\ inode'[i] = inode[i]
        BY <1>1, <2>2, <3>1
      <4> QED
        BY <1>1, <4>1
    <3>2. CASE i = Len(inode) + 1
      BY <1>1, <2>1, <2>2, <3>2
    <3> QED
      BY <1>1, <2>2, <3>1, <3>2
  <2>4. disk' \in [Files -> 0 .. Len(inode')] /\ \A g \in Files : disk'[g] \in {disk[g], Absent, Len(inode) + 1}
    BY <1>1, <1>6, <2>2
  <2>5. DiskOK'
    BY <1>2, <2>2, <2>3, <2>4 DEF DiskOK, Inode
  <2>6. \A i \in 1 .. Len(inode) : inode'[i].stamp \in {inode[i].stamp, writes + 1}
    BY <2>2
  <2>7. Len(inode') \in Nat /\ Len(inode) <= Len(inode')
    BY <1>1, <2>2
  <2> QED
    BY <2>4, <2>5, <2>6, <2>7
<1>7. CASE disk' = [disk EXCEPT ![f] = Absent] /\ UNCHANGED inode
  <2>1. disk' \in [Files -> 0 .. Len(inode')] /\ \A g \in Files : disk'[g] \in {disk[g], Absent, Len(inode) + 1}
    BY <1>1, <1>7 DEF Absent
  <2>2. \A i \in 1 .. Len(inode') : inode'[i].stamp <= writes + 1
    BY <1>1, <1>7
  <2> QED
    BY <1>1, <1>2, <1>7, <2>1, <2>2 DEF DiskOK, Inode
<1> QED
  BY <1>1, <1>2, <1>3, <1>5, <1>6, <1>7

\* A write gives the file a stamp it never had, or puts another inode in its place.
LEMMA WriteStep ==
    ASSUME MetaIInv, NEW f \in Files, Write(f)
    PROVE  MetaIInv'
<1>1. /\ DiskOK' /\ Len(inode) \in Nat /\ Len(inode') \in Nat /\ Len(inode) <= Len(inode')
      /\ \A i \in 1 .. Len(inode) : inode'[i].stamp \in {inode[i].stamp, writes + 1}
      /\ \A g \in Files : disk'[g] \in {disk[g], Absent, Len(inode) + 1}
      /\ writes \in Nat /\ writes' = writes + 1 /\ writes' <= MaxWrites /\ quiet' = FALSE
      /\ UNCHANGED <<cache, metaPc, page, stemIndex, hashLeft, looked, pageReply, hashed, pages>>
  BY WriteEffect DEF MetaIInv
<1>2. looked.stamp \in Nat /\ looked.stamp <= writes /\ looked.id \in Nat /\ looked.id <= Len(inode)
  BY DEF MetaIInv, MetaTypeInv, LookOK, LookType
<1>3. MetaTypeOK' /\ PageOK' /\ LookOK'
  <2>1. MetaTypeOK'
    <3>1. disk' \in [Files -> 0 .. Len(inode')] /\ MaxWrites \in Nat
      BY <1>1, BoundsAssumption DEF DiskOK
    <3>2. writes' \in 0 .. MaxWrites
      <4>1. writes' \in Int /\ writes' >= 0 /\ writes' <= MaxWrites
        BY <1>1
      <4> QED
        BY <3>1, <4>1
    <3>3. quiet' \in BOOLEAN
      BY <1>1
    <3> QED
      BY <1>1, <3>1, <3>2, <3>3 DEF MetaIInv, MetaTypeInv, MetaTypeOK
  <2>2. PageOK'
    BY <1>1 DEF MetaIInv, MetaTypeInv, PageOK
  <2>3. LookOK'
    BY <1>1, <1>2 DEF MetaIInv, MetaTypeInv, LookOK
  <2> QED
    BY <2>1, <2>2, <2>3
<1>4. metaPc \in {"read", "restat"} /\ ~looked.cached /\ StampStands' => StampStands
  <2>1. metaPc \in {"read", "restat"} /\ ~looked.cached => looked.handle \in 1 .. Len(inode)
    BY DEF MetaIInv, DigestOK
  <2> QED
    BY <1>1, <1>2, <2>1 DEF StampStands
<1>5. metaPc \in {"read", "restat", "reidentify"} /\ IdStands' => IdStands
  <2>1. metaPc \in {"read", "restat", "reidentify"} => looked.file \in Files
    BY DEF MetaIInv, MetaTypeInv, LookOK
  <2> QED
    BY <1>1, <1>2, <2>1 DEF IdStands, Absent
<1>6. DigestOK'
  <2>1. metaPc = "read" => ~looked.cached
    BY DEF MetaIInv, MetaTypeInv, LookOK
  <2>2. Met' = Met /\ Key' = Key /\ metaPc' = metaPc /\ looked' = looked
    BY <1>1 DEF Met, Key
  <2>3. metaPc \in {"read", "restat"} /\ ~looked.cached => looked.handle \in 1 .. Len(inode')
    BY <1>1 DEF MetaIInv, DigestOK
  <2> QED
    BY <1>4, <1>5, <2>1, <2>2, <2>3 DEF MetaIInv, DigestOK
<1>7. CacheOK' /\ ItemsOK' /\ Quiet'
  BY <1>1 DEF MetaIInv, CacheOK, ItemsOK, Quiet
<1> QED
  BY <1>1, <1>3, <1>6, <1>7 DEF MetaIInv, MetaTypeInv

\* A page begins with the whole budget. Then one lemma for each access to the file.
LEMMA AskPageStep ==
    ASSUME MetaIInv, NEW asked \in ListingType, NEW offset \in Int, NEW limit \in Int,
           AskPage(asked, offset, limit)
    PROVE  MetaIInv'
<1> DEFINE start == Max({0, offset})
           upTo == Max({0, Min({limit, MaxLimit})})
<1>1. start \in Nat /\ upTo \in Nat
  <2>1. Min({limit, MaxLimit}) \in Int
    <3>1. MaxLimit \in Int
      BY LimitAssumption
    <3> QED
      BY <3>1, Pair
  <2>2. \A n \in Int : Max({0, n}) \in Nat
    BY Pair
  <2> QED
    BY <2>1, <2>2
<1>2. Len(asked.paths) \in Nat
  BY ListingsAssumption DEF ListingType, NoPage
<1> HIDE DEF start, upTo
<1>3. /\ metaPc = "idle" /\ pages < MaxPages /\ pages' = pages + 1
      /\ page' = [listing |-> asked, offset |-> start, limit |-> upTo, items |-> <<>>]
      /\ IF upTo = 0
         THEN Answer(<<>>, IF start < Len(asked.paths) THEN start + 1 ELSE NoOffset)
         ELSE IF start >= Len(asked.paths) THEN Answer(<<>>, NoOffset)
         ELSE metaPc' = "resolve" /\ UNCHANGED <<looked, pageReply, read>>
      /\ stemIndex' = (IF asked.stems THEN StemIndex ELSE <<>>)
      /\ hashLeft' = HashPerCall /\ quiet' = TRUE /\ hashed' = 0
      /\ UNCHANGED <<disk, inode, cache, writes>>
  BY DEF AskPage, start, upTo
<1>4. \A s \in DOMAIN stemIndex' : stemIndex'[s] \subseteq Files
  BY <1>3 DEF StemIndex
<1>5. /\ page' \in [listing : ListingType, offset : Nat, limit : Nat, items : Seq(ItemType)]
      /\ page'.items = <<>> /\ page'.offset = start /\ page'.listing = asked
  BY <1>1, <1>3
<1>6. \/ /\ metaPc' = "idle" /\ looked' = NoFile /\ pageReply'.items = <<>>
         /\ pageReply' \in [items : Seq(ItemType), next : Nat \cup {NoOffset}]
      \/ /\ metaPc' = "resolve" /\ UNCHANGED <<looked, pageReply>>
         /\ start < Len(asked.paths)
  <2>1. <<>> \in Seq(ItemType)
    OBVIOUS
  <2>2. ASSUME NEW next \in Nat \cup {NoOffset}, Answer(<<>>, next)
        PROVE  /\ metaPc' = "idle" /\ looked' = NoFile /\ pageReply'.items = <<>>
               /\ pageReply' \in [items : Seq(ItemType), next : Nat \cup {NoOffset}]
    BY <2>1, <2>2 DEF Answer
  <2>3. CASE upTo = 0
    <3>1. (IF start < Len(asked.paths) THEN start + 1 ELSE NoOffset) \in Nat \cup {NoOffset}
      BY <1>1
    <3> QED
      BY <1>3, <2>2, <2>3, <3>1
  <2>4. CASE upTo # 0 /\ start >= Len(asked.paths)
    BY <1>3, <2>2, <2>4
  <2>5. CASE upTo # 0 /\ ~(start >= Len(asked.paths))
    BY <1>1, <1>2, <1>3, <2>5
  <2> QED
    BY <2>3, <2>4, <2>5
<1>7. PageOK'
  BY <1>1, <1>4, <1>5, <1>6 DEF MetaIInv, MetaTypeInv, PageOK
<1>8. MetaTypeOK'
  <2>1. pages' \in 0 .. MaxPages /\ HashPerCall \in 0 .. HashPerCall
    BY <1>3, BoundsAssumption, HashAssumption DEF MetaIInv, MetaTypeInv, MetaTypeOK
  <2>2. metaPc' \in {"idle", "resolve"} /\ pageReply'.next \in Nat \cup {NoOffset}
    BY <1>6, <1>7 DEF PageOK
  <2>3. quiet' \in BOOLEAN /\ hashed' \in Nat
    BY <1>3
  <2> QED
    BY <1>3, <2>1, <2>2, <2>3 DEF MetaIInv, MetaTypeInv, MetaTypeOK
<1>9. DiskOK' /\ CacheOK'
  BY <1>3 DEF MetaIInv, MetaTypeInv, DiskOK, CacheOK
<1>10. LookOK'
  BY <1>3, <1>6, NoFileTyped DEF MetaIInv, MetaTypeInv, LookOK, MetaTypeOK, DiskOK
<1>11. DigestOK'
  BY <1>6 DEF DigestOK
<1>12. ItemsOK'
  BY <1>5, <1>6 DEF MetaIInv, ItemsOK
<1>13. Quiet'
  BY <1>3, <1>5, <1>6 DEF Quiet, Seen
<1> QED
  BY <1>7, <1>8, <1>9, <1>10, <1>11, <1>12, <1>13 DEF MetaIInv, MetaTypeInv

LEMMA ResolveStep == MetaIInv /\ Resolve => MetaIInv'
<1> SUFFICES ASSUME MetaIInv, Resolve PROVE MetaIInv'
  OBVIOUS
<1>1. metaPc \in {"resolve", "stat"} /\ UNCHANGED <<disk, inode, cache, stemIndex, hashLeft, quiet, hashed, writes, pages>>
  BY DEF Resolve
<1>2. CASE ListedPath \in Files /\ Examine(ListedPath, "path")
  BY <1>1, <1>2, ExamineStep
<1>3. CASE ByStem
  BY <1>1, <1>3, ByStemStep
<1> QED
  BY <1>2, <1>3 DEF Resolve

LEMMA StatStep == MetaIInv /\ Stat => MetaIInv'
<1> SUFFICES ASSUME MetaIInv, Stat PROVE MetaIInv'
  OBVIOUS
<1>1. metaPc = "stat" /\ UNCHANGED <<disk, inode, cache, stemIndex, hashLeft, quiet, hashed, writes, pages>>
  BY DEF Stat
<1>2. CASE ByStem \/ Missing
  BY <1>1, <1>2, ByStemStep
<1>3. CASE /\ disk[looked.file] # Absent
           /\ looked' = [looked EXCEPT !.size = StatOf(looked.file).size, !.stamp = StatOf(looked.file).stamp]
           /\ metaPc' = "identify"
           /\ UNCHANGED <<page, pageReply, read>>
  <2> DEFINE stat == StatOf(looked.file)
  <2>1. looked \in LookType /\ looked.file \in Files /\ ~looked.cached /\ looked.id <= Len(inode)
    BY <1>1 DEF MetaIInv, MetaTypeInv, LookOK
  <2>2. disk[looked.file] \in 1 .. Len(inode) /\ inode \in Seq([size : Nat, stamp : Nat])
    BY <1>3, <2>1 DEF MetaIInv, MetaTypeInv, DiskOK, Absent
  <2>3. stat \in [size : Nat, stamp : Nat] /\ stat.stamp <= writes
    <3> DEFINE Inode == [size : Nat, stamp : Nat]
    <3>1. \A i \in 1 .. Len(inode) : inode[i] \in Inode
      <4>1. inode \in Seq(Inode)
        BY <2>2
      <4> HIDE DEF Inode
      <4> QED BY <4>1
    <3> QED
      BY <2>2, <3>1 DEF MetaIInv, MetaTypeInv, DiskOK, StatOf
  <2> HIDE DEF stat
  <2>4. looked' = [looked EXCEPT !.size = stat.size, !.stamp = stat.stamp]
    BY <1>3 DEF stat
  <2>5. /\ looked' \in LookType /\ looked'.file = looked.file /\ looked'.id = looked.id /\ looked'.cached = looked.cached
        /\ looked'.size = stat.size /\ looked'.stamp = stat.stamp
    BY <2>1, <2>3, <2>4 DEF LookType
  <2>6. LookOK'
    BY <1>1, <1>3, <2>1, <2>3, <2>5 DEF LookOK
  <2>7. DigestOK'
    BY <1>3 DEF DigestOK
  <2>8. Quiet'
    <3>1. StatOf(looked.file)' = stat
      BY <1>1, <2>5 DEF StatOf, stat
    <3>2. stat = [size |-> stat.size, stamp |-> stat.stamp]
      BY <2>3
    <3> QED
      BY <1>1, <1>3, <2>1, <2>5, <3>1, <3>2 DEF MetaIInv, Quiet, Seen, Charged, Waits
  <2> QED
    BY <1>1, <1>3, <2>6, <2>7, <2>8, LookStep DEF Seen, MetaIInv, MetaTypeInv, MetaTypeOK
<1> QED
  BY <1>2, <1>3 DEF Stat

LEMMA IdentifyStep == MetaIInv /\ Identify => MetaIInv'
<1> SUFFICES ASSUME MetaIInv, Identify PROVE MetaIInv'
  OBVIOUS
<1>1. /\ metaPc = "identify" /\ metaPc' = "lookup" /\ looked' = [looked EXCEPT !.id = disk[looked.file]]
      /\ UNCHANGED <<disk, inode, cache, page, stemIndex, hashLeft, pageReply, read, quiet, hashed, writes, pages>>
  BY DEF Identify
<1>2. looked \in LookType /\ looked.file \in Files /\ ~looked.cached /\ looked.stamp <= writes
  BY <1>1 DEF MetaIInv, MetaTypeInv, LookOK
<1>3. disk[looked.file] \in 0 .. Len(inode)
  BY <1>2 DEF MetaIInv, MetaTypeInv, DiskOK
<1>4. /\ looked' \in LookType /\ looked'.file = looked.file /\ looked'.id = disk[looked.file]
      /\ looked'.cached = looked.cached /\ looked'.size = looked.size /\ looked'.stamp = looked.stamp
  BY <1>1, <1>2, <1>3 DEF LookType
<1>5. LookOK'
  BY <1>1, <1>2, <1>3, <1>4 DEF LookOK
<1>6. DigestOK'
  BY <1>1 DEF DigestOK
<1>7. Quiet'
  BY <1>1, <1>4 DEF MetaIInv, Quiet, Seen, Charged, Waits, StatOf
<1> QED
  BY <1>1, <1>5, <1>6, <1>7, LookStep DEF Seen, MetaIInv, MetaTypeInv, MetaTypeOK

LEMMA LookupStep == MetaIInv /\ Lookup => MetaIInv'
<1> SUFFICES ASSUME MetaIInv, Lookup PROVE MetaIInv'
  OBVIOUS
<1>1. metaPc = "lookup" /\ UNCHANGED <<disk, inode, cache, stemIndex, quiet, hashed, writes, pages>>
  BY DEF Lookup
<1>2. looked \in LookType /\ looked.file \in Files /\ ~looked.cached /\ looked.size \in Nat /\ hashLeft \in 0 .. HashPerCall
  BY <1>1 DEF MetaIInv, MetaTypeInv, LookOK, LookType, MetaTypeOK
<1>3. quiet /\ hashed = 0 => hashLeft = HashPerCall
  BY <1>1 DEF MetaIInv, Quiet, Charged
<1>4. CASE /\ Key \in DOMAIN cache
           /\ looked' = [looked EXCEPT !.digest = cache[Key], !.cached = TRUE]
           /\ metaPc' = "restat"
           /\ UNCHANGED <<page, hashLeft, pageReply, read>>
  <2>1. cache[Key] \in Digest /\ (looked.id # Absent => IsContent(Key, cache[Key]))
    BY <1>4 DEF MetaIInv, CacheOK, Key
  <2> DEFINE d == cache[Key]
  <2>2. looked' = [looked EXCEPT !.digest = d, !.cached = TRUE] /\ d \in Digest
    BY <1>4, <2>1
  <2> HIDE DEF d
  <2>3. /\ looked' \in LookType /\ looked'.file = looked.file /\ looked'.id = looked.id /\ looked'.digest = d
        /\ looked'.cached = TRUE /\ looked'.size = looked.size /\ looked'.stamp = looked.stamp
    BY <1>2, <2>2 DEF LookType
  <2>4. Key' = Key
    BY <2>3 DEF Key
  <2>5. LookOK'
    BY <1>1, <1>2, <1>4, <2>3 DEF MetaIInv, MetaTypeInv, LookOK
  <2>6. DigestOK'
    BY <1>4, <2>1, <2>3, <2>4 DEF DigestOK, d
  <2>7. Quiet'
    BY <1>1, <1>3, <1>4, <2>3 DEF MetaIInv, Quiet, Seen, Charged, Waits, StatOf
  <2> QED
    BY <1>1, <1>2, <1>4, <2>5, <2>6, <2>7, LookStep DEF Seen
<1>5. CASE looked.size > SingleHash /\ Pending /\ UNCHANGED hashLeft
  BY <1>1, <1>3, <1>5, PendingStep DEF Seen
<1>6. CASE looked.size <= SingleHash /\ looked.size > hashLeft /\ Pending /\ UNCHANGED hashLeft
  <2>1. SingleHash <= HashPerCall /\ SingleHash \in Nat /\ HashPerCall \in Nat
    BY HashAssumption
  <2>2. ~(quiet /\ hashed = 0)
    BY <1>2, <1>3, <1>6, <2>1
  <2> DEFINE item == FileItem("pending", <<>>)
  <2>3. <<>> \in Digest /\ metaPc # "idle"
    BY <1>1 DEF Digest
  <2>4. item \in ItemType /\ item.hash = "pending"
    BY <2>3, FileItemTyped DEF MetaIInv, MetaTypeInv
  <2>5. CacheOK' /\ GoodItem(item)
    BY <1>1, <2>4 DEF MetaIInv, CacheOK, GoodItem
  <2>6. AddItem(item)
    BY <1>6 DEF Pending
  <2>7. hashed' = hashed /\ hashed \in Nat
    BY <1>1 DEF MetaIInv, MetaTypeInv, MetaTypeOK
  <2> HIDE DEF item
  <2>8. quiet => hashed' > 0
    BY <2>2, <2>7
  <2> QED
    BY <1>1, <1>6, <2>2, <2>3, <2>4, <2>5, <2>6, <2>7, <2>8, ItemStep
<1>7. CASE /\ looked.size <= SingleHash /\ looked.size <= hashLeft
           /\ hashLeft' = hashLeft - looked.size
           /\ metaPc' = "open"
           /\ UNCHANGED <<looked, page, pageReply, read>>
  <2>1. hashLeft' \in 0 .. HashPerCall
    BY <1>2, <1>7, HashAssumption
  <2>2. LookOK'
    BY <1>1, <1>2, <1>7 DEF MetaIInv, MetaTypeInv, LookOK
  <2>3. DigestOK'
    BY <1>7 DEF DigestOK
  <2>4. Quiet'
    BY <1>1, <1>2, <1>7 DEF MetaIInv, Quiet, Seen, Charged, Waits, StatOf
  <2> QED
    BY <1>1, <1>7, <2>1, <2>2, <2>3, <2>4, LookStep DEF Seen
<1>8. SingleHash \in Nat
  BY HashAssumption
<1> QED
  BY <1>2, <1>4, <1>5, <1>6, <1>7, <1>8 DEF Lookup

LEMMA OpenStep == MetaIInv /\ Open => MetaIInv'
<1> SUFFICES ASSUME MetaIInv, Open PROVE MetaIInv'
  OBVIOUS
<1>1. metaPc = "open" /\ UNCHANGED <<disk, inode, cache, stemIndex, hashLeft, quiet, hashed, writes, pages>>
  BY DEF Open
<1>2. looked \in LookType /\ looked.file \in Files /\ ~looked.cached
  BY <1>1 DEF MetaIInv, MetaTypeInv, LookOK
<1>3. CASE disk[looked.file] = Absent /\ Pending
  <2>1. ~quiet
    BY <1>1, <1>3 DEF MetaIInv, Quiet, Seen
  <2> QED
    BY <1>1, <1>3, <2>1, PendingStep DEF Seen
<1>4. CASE /\ disk[looked.file] # Absent
           /\ looked' = [looked EXCEPT !.handle = disk[looked.file], !.digest = <<Content(disk[looked.file])>>]
           /\ metaPc' = "read"
           /\ UNCHANGED <<page, pageReply, read>>
  <2> DEFINE i == disk[looked.file]
             d == <<Content(i)>>
  <2>1. i \in 1 .. Len(inode) /\ i \in Nat
    BY <1>2, <1>4 DEF MetaIInv, MetaTypeInv, DiskOK, Absent
  <2>2. inode[i].stamp \in Nat
    <3> DEFINE Inode == [size : Nat, stamp : Nat]
    <3>1. inode[i] \in Inode
      <4>1. inode \in Seq(Inode)
        BY DEF MetaIInv, MetaTypeInv, DiskOK
      <4> HIDE DEF Inode
      <4> QED BY <2>1, <4>1
    <3> QED
      BY <3>1
  <2>3. d \in Digest /\ d = << <<i, inode[i].stamp>> >>
    BY <2>1, <2>2 DEF Digest, Content
  <2>4. looked' = [looked EXCEPT !.handle = i, !.digest = d]
    BY <1>4
  <2> HIDE DEF i, d
  <2>5. /\ looked' \in LookType /\ looked'.file = looked.file /\ looked'.id = looked.id /\ looked'.digest = d /\ looked'.handle = i
        /\ looked'.cached = looked.cached /\ looked'.size = looked.size /\ looked'.stamp = looked.stamp
    BY <1>2, <2>1, <2>3, <2>4 DEF LookType
  <2>6. LookOK'
    BY <1>1, <1>2, <1>4, <2>5 DEF MetaIInv, MetaTypeInv, LookOK
  <2>7. DigestOK'
    <3>1. StampStands' => looked'.digest = <<Met'>>
      BY <1>1, <2>3, <2>5 DEF StampStands, Met
    <3>2. IdStands' => looked'.handle = looked'.id
      BY <1>1, <2>5 DEF IdStands, i
    <3>3. looked'.handle \in 1 .. Len(inode')
      BY <1>1, <2>1, <2>5
    <3> QED
      BY <1>4, <3>1, <3>2, <3>3 DEF DigestOK
  <2>8. Quiet'
    BY <1>1, <1>2, <1>4, <2>5 DEF MetaIInv, Quiet, Seen, Charged, Waits, StatOf
  <2> QED
    BY <1>1, <1>4, <2>6, <2>7, <2>8, LookStep DEF Seen, MetaIInv, MetaTypeInv, MetaTypeOK
<1> QED
  BY <1>3, <1>4 DEF Open

\* An element appended to itself.
LEMMA Twice == ASSUME NEW m PROVE Append(<<m>>, m) = <<m, m>>
<1>1. <<m>> \in Seq({m})
  OBVIOUS
<1>2. /\ Append(<<m>>, m) \in Seq({m}) /\ Len(Append(<<m>>, m)) = 2
      /\ Append(<<m>>, m)[1] = m /\ Append(<<m>>, m)[2] = m
  BY <1>1
<1> DEFINE t == <<m, m>>
<1>3. t \in Seq({m}) /\ Len(t) = 2 /\ t[1] = m /\ t[2] = m
  OBVIOUS
<1> HIDE DEF t
<1>4. \A i \in 1 .. 2 : Append(<<m>>, m)[i] = t[i]
  BY <1>2, <1>3
<1>5. Append(<<m>>, m) = t
  BY <1>2, <1>3, <1>4, SeqEqual
<1> QED
  BY <1>5 DEF t

LEMMA ReadOnStep == MetaIInv /\ ReadOn => MetaIInv'
<1> SUFFICES ASSUME MetaIInv, ReadOn PROVE MetaIInv'
  OBVIOUS
<1>1. /\ metaPc = "read" /\ metaPc' = "restat"
      /\ looked' = [looked EXCEPT !.digest = Append(looked.digest, Content(looked.handle))]
      /\ UNCHANGED <<disk, inode, cache, page, stemIndex, hashLeft, pageReply, read, quiet, hashed, writes, pages>>
  BY DEF ReadOn
<1>2. /\ looked \in LookType /\ looked.file \in Files /\ ~looked.cached
      /\ looked.handle \in 1 .. Len(inode) /\ looked.handle \in Nat
  BY <1>1 DEF MetaIInv, MetaTypeInv, LookOK, DigestOK, LookType
<1>3. inode[looked.handle].stamp \in Nat
  <2> DEFINE Inode == [size : Nat, stamp : Nat]
  <2>1. inode[looked.handle] \in Inode
    <3>1. inode \in Seq(Inode)
      BY DEF MetaIInv, MetaTypeInv, DiskOK
    <3> HIDE DEF Inode
    <3> QED BY <1>2, <3>1
  <2> QED
    BY <2>1
<1> DEFINE c == Content(looked.handle)
           d == Append(looked.digest, c)
<1>4. c \in Nat \X Nat /\ c = <<looked.handle, inode[looked.handle].stamp>>
  BY <1>2, <1>3 DEF Content
<1> HIDE DEF c
<1>5. d \in Digest
  <2>1. looked.digest \in Digest
    BY <1>2 DEF LookType
  <2> QED
    BY <1>4, <2>1 DEF Digest
<1>6. looked' = [looked EXCEPT !.digest = d]
  BY <1>1 DEF c
<1>7. StampStands => d = <<Met, Met>>
  <2> SUFFICES ASSUME StampStands PROVE d = <<Met, Met>>
    OBVIOUS
  <2>1. looked.digest = <<Met>> /\ c = Met
    BY <1>1, <1>4 DEF MetaIInv, DigestOK, StampStands, Met
  <2> QED
    BY <2>1, Twice
<1> HIDE DEF d
<1>8. /\ looked' \in LookType /\ looked'.file = looked.file /\ looked'.id = looked.id /\ looked'.digest = d
      /\ looked'.handle = looked.handle
      /\ looked'.cached = looked.cached /\ looked'.size = looked.size /\ looked'.stamp = looked.stamp
  BY <1>2, <1>5, <1>6 DEF LookType
<1>9. LookOK'
  BY <1>1, <1>2, <1>8 DEF MetaIInv, MetaTypeInv, LookOK
<1>10. DigestOK'
  <2>1. (StampStands' <=> StampStands) /\ (IdStands' <=> IdStands) /\ Met' = Met
    BY <1>1, <1>8 DEF StampStands, IdStands, Met
  <2> QED
    BY <1>1, <1>2, <1>7, <1>8, <2>1 DEF MetaIInv, DigestOK
<1>11. Quiet'
  BY <1>1, <1>2, <1>8 DEF MetaIInv, Quiet, Seen, Charged, Waits, StatOf
<1> QED
  BY <1>1, <1>9, <1>10, <1>11, LookStep DEF Seen, MetaIInv, MetaTypeInv, MetaTypeOK

LEMMA RestatStep == MetaIInv /\ Restat => MetaIInv'
<1> SUFFICES ASSUME MetaIInv, Restat PROVE MetaIInv'
  OBVIOUS
<1>1. metaPc = "restat" /\ UNCHANGED <<disk, inode, cache, stemIndex, hashLeft, quiet, hashed, writes, pages>>
  BY DEF Restat
<1> DEFINE Unchanged == disk[looked.file] # Absent /\ StatOf(looked.file) = [size |-> looked.size, stamp |-> looked.stamp]
<1>2. CASE ~Unchanged /\ Pending
  <2>1. ~quiet
    BY <1>1, <1>2 DEF MetaIInv, Quiet, Seen
  <2> QED
    BY <1>1, <1>2, <2>1, PendingStep DEF Seen
<1>3. CASE Unchanged /\ metaPc' = "reidentify" /\ UNCHANGED <<looked, page, pageReply, read>>
  <2>1. LookOK'
    BY <1>1, <1>3 DEF MetaIInv, MetaTypeInv, LookOK
  <2>2. DigestOK'
    <3>1. ASSUME ~looked.cached, IdStands PROVE IsContent(Key, looked.digest)
      <4>1. looked.handle = looked.id
        BY <1>1, <3>1 DEF MetaIInv, DigestOK
      <4>2. inode[looked.handle] = [size |-> looked.size, stamp |-> looked.stamp]
        BY <1>3, <3>1, <4>1 DEF StatOf, IdStands
      <4>3. StampStands
        BY <4>2 DEF StampStands
      <4>4. looked.digest = <<Met, Met>>
        BY <1>1, <3>1, <4>3 DEF MetaIInv, DigestOK
      <4> QED
        BY <4>1, <4>4 DEF IsContent, Key, Met
    <3>2. Key' = Key /\ (IdStands' <=> IdStands) /\ looked' = looked
      BY <1>1, <1>3 DEF Key, IdStands
    <3> QED
      BY <1>1, <1>3, <3>1, <3>2 DEF MetaIInv, DigestOK
  <2>3. Quiet'
    BY <1>1, <1>3 DEF MetaIInv, Quiet, Seen, Charged, Waits, StatOf
  <2> QED
    BY <1>1, <1>3, <2>1, <2>2, <2>3, LookStep DEF Seen, MetaIInv, MetaTypeInv, MetaTypeOK
<1> QED
  BY <1>2, <1>3 DEF Restat

LEMMA ReidentifyStep == MetaIInv /\ Reidentify => MetaIInv'
<1> SUFFICES ASSUME MetaIInv, Reidentify PROVE MetaIInv'
  OBVIOUS
<1>1. metaPc = "reidentify" /\ UNCHANGED <<disk, inode, stemIndex, hashLeft, quiet, writes, pages>>
  BY DEF Reidentify
<1>2. looked \in LookType /\ looked.file \in Files /\ looked.digest \in Digest /\ hashed \in Nat
  BY <1>1 DEF MetaIInv, MetaTypeInv, LookOK, LookType, MetaTypeOK
<1>3. CASE disk[looked.file] # looked.id /\ Pending /\ UNCHANGED <<cache, hashed>>
  <2>1. ~quiet
    BY <1>1, <1>3 DEF MetaIInv, Quiet, Seen
  <2> QED
    BY <1>1, <1>3, <2>1, PendingStep DEF Seen
<1>4. CASE /\ disk[looked.file] = looked.id
           /\ AddItem(FileItem("ready", looked.digest))
           /\ cache' = IF looked.cached THEN cache ELSE Stored
           /\ hashed' = IF looked.cached THEN hashed ELSE hashed + 1
  <2> DEFINE item == FileItem("ready", looked.digest)
  <2>1. /\ item \in ItemType /\ item.hash = "ready" /\ item.key = Key /\ item.digest = looked.digest
        /\ item.status = "file_backed" => looked.id # Absent
    BY <1>1, <1>2, FileItemTyped DEF MetaIInv, MetaTypeInv
  <2>2. AddItem(item)
    BY <1>4
  <2> HIDE DEF item
  <2>3. looked.id # Absent => IsContent(Key, looked.digest)
    BY <1>1, <1>4 DEF MetaIInv, DigestOK, IdStands
  <2>4. GoodItem(item)
    BY <2>1, <2>3 DEF GoodItem
  <2>5. CacheOK'
    <3>1. CASE looked.cached
      BY <1>4, <3>1 DEF MetaIInv, CacheOK
    <3>2. CASE ~looked.cached
      <4> SUFFICES ASSUME NEW key \in DOMAIN cache'
                   PROVE  cache'[key] \in Digest /\ (key.id # Absent => IsContent(key, cache'[key]))
        BY DEF CacheOK
      <4>1. cache' = Stored
        BY <1>4, <3>2
      <4>2. \/ key \in DOMAIN cache /\ cache'[key] = cache[key]
            \/ key = Key /\ cache'[key] = looked.digest
        BY <4>1 DEF Stored
      <4>3. Key.id = looked.id
        BY DEF Key
      <4> QED
        BY <1>2, <2>3, <4>2, <4>3 DEF MetaIInv, CacheOK
    <3> QED
      BY <3>1, <3>2
  <2>6. hashed' \in {hashed, hashed + 1}
    BY <1>4
  <2>7. quiet /\ hashed' = 0 => hashLeft = HashPerCall
    BY <1>1, <1>2, <1>4 DEF MetaIInv, Quiet, Charged
  <2> QED
    BY <1>1, <2>1, <2>2, <2>4, <2>5, <2>6, <2>7, ItemStep
<1> QED
  BY <1>3, <1>4 DEF Reidentify

------------------------------------------------------------
(* What holds of every behaviour. *)

\* Nothing is read at first.
LEMMA MetaInitIInv == MetaInit => MetaIInv
<1> SUFFICES ASSUME MetaInit PROVE MetaIInv
  OBVIOUS
<1>1. /\ disk = [f \in Files |-> f] /\ inode = [f \in Files |-> [size |-> FirstSizes[f], stamp |-> 0]]
      /\ cache = <<>> /\ metaPc = "idle" /\ page = NoPage /\ stemIndex = <<>> /\ hashLeft = HashPerCall
      /\ looked = NoFile /\ pageReply = NoPageReply /\ quiet = TRUE /\ hashed = 0 /\ writes = 0 /\ pages = 0
  BY DEF MetaInit
<1>2. DiskOK
  <2> DEFINE Inode == [size : Nat, stamp : Nat]
  <2>1. \A f \in Files : inode[f] \in Inode /\ inode[f].stamp = 0
    BY <1>1, FilesAssumption
  <2>2. DOMAIN inode = 1 .. FileCount /\ FileCount \in Nat
    BY <1>1, FilesAssumption DEF Files
  <2>3. inode \in Seq(Inode) /\ Len(inode) = FileCount
    <3> HIDE DEF Inode
    <3>1. inode \in [1 .. FileCount -> Inode]
      BY <1>1, <2>1, <2>2 DEF Files
    <3>2. inode \in Seq(Inode)
      BY <2>2, <3>1, SeqDef
    <3> QED
      BY <2>2, <3>1, <3>2, LenProperties
  <2>4. disk \in [Files -> 0 .. Len(inode)]
    BY <1>1, <2>2, <2>3 DEF Files
  <2> QED
    BY <1>1, <2>1, <2>2, <2>3, <2>4 DEF DiskOK, Files
<1>3. PageOK
  BY <1>1 DEF PageOK, NoPage, NoPageReply, ListingType
<1>4. LookOK
  BY <1>1, <1>2, NoFileTyped DEF LookOK, DiskOK
<1>5. MetaTypeOK
  BY <1>1, <1>2, HashAssumption, BoundsAssumption DEF MetaTypeOK, DiskOK, NoPageReply
<1>6. DigestOK /\ CacheOK /\ ItemsOK /\ Quiet
  BY <1>1 DEF DigestOK, CacheOK, ItemsOK, Quiet, Seen, NoPage, NoPageReply
<1> QED
  BY <1>2, <1>3, <1>4, <1>5, <1>6 DEF MetaIInv, MetaTypeInv

\* MetaIInv is inductive.
LEMMA MetaNextIInv == MetaIInv /\ [MetaNext]_metaVars => MetaIInv'
<1> SUFFICES ASSUME MetaIInv, [MetaNext]_metaVars PROVE MetaIInv'
  OBVIOUS
<1>1. ASSUME NEW f \in Files, Write(f) PROVE MetaIInv'
  BY <1>1, WriteStep
<1>2. CASE ClientAsks
  <2>1. PICK limit \in Limits :
           \/ \E asked \in Listings, offset \in {-1, 0} : AskPage(asked, offset, limit)
           \/ pageReply.next # NoOffset /\ page.limit > 0 /\ AskPage(page.listing, pageReply.next, limit)
    BY <1>2 DEF ClientAsks
  <2>2. limit \in Int
    BY LimitAssumption
  <2>3. ASSUME NEW asked \in Listings, NEW offset \in {-1, 0}, AskPage(asked, offset, limit) PROVE MetaIInv'
    <3>1. asked \in ListingType /\ offset \in Int
      BY DEF ListingType
    <3> QED
      BY <2>2, <2>3, <3>1, AskPageStep
  <2>4. CASE pageReply.next # NoOffset /\ AskPage(page.listing, pageReply.next, limit)
    <3>1. page.listing \in ListingType /\ pageReply.next \in Int
      BY <2>4 DEF MetaIInv, MetaTypeInv, PageOK
    <3> QED
      BY <2>2, <2>4, <3>1, AskPageStep
  <2> QED
    BY <2>1, <2>3, <2>4
<1>3. CASE UNCHANGED metaVars
  <2>1. MetaTypeInv'
    BY <1>3 DEF metaVars, MetaIInv, MetaTypeInv, MetaTypeOK, DiskOK, PageOK, LookOK
  <2>2. DigestOK'
    BY <1>3 DEF metaVars, MetaIInv, DigestOK, StampStands, IdStands, Met, Key
  <2>3. CacheOK' /\ ItemsOK' /\ Quiet'
    BY <1>3 DEF metaVars, MetaIInv, CacheOK, ItemsOK, Quiet, Charged, Waits, StatOf
  <2> QED
    BY <2>1, <2>2, <2>3 DEF MetaIInv
<1> QED
  BY <1>1, <1>2, <1>3, ResolveStep, StatStep, IdentifyStep, LookupStep, OpenStep, ReadOnStep, RestatStep, ReidentifyStep
  DEF MetaNext

\* MetaIInv holds in every reachable state.
LEMMA MetaInvariance == MetaSpec => []MetaIInv
  BY MetaInitIInv, MetaNextIInv, PTL DEF MetaSpec

\* The variables keep their types; the hash budget of a call is never overdrawn
\* (_sha256_metadata), and a file is resolved before it is read.
THEOREM MetaTypes == MetaSpec => []MetaTypeOK
<1>1. MetaIInv => MetaTypeOK
  BY DEF MetaIInv, MetaTypeInv
<1> QED
  BY <1>1, MetaInvariance, PTL

\* A digest that is cached or answered is that of the very file it is filed under,
\* whatever other processes write (_sha256_metadata looks at the file before and after).
THEOREM HashAlwaysContent == MetaSpec => []HashIsContent
<1>1. MetaIInv => HashIsContent
  BY DEF MetaIInv, CacheOK, ItemsOK, GoodItem, HashIsContent
<1> QED
  BY <1>1, MetaInvariance, PTL

\* If no file changes under it, a page that leaves a short file waiting has hashed
\* another: a client that asks again gets on.
THEOREM HashAlwaysProgresses == MetaSpec => []HashProgress
<1>1. MetaIInv => HashProgress
  BY DEF MetaIInv, Quiet, Waits, HashProgress
<1> QED
  BY <1>1, MetaInvariance, PTL

------------------------------------------------------------
(* What a client has read of a listing, page by page.                              *)

\* What a client has read: the items of the page are those of the listing from the
\* offset on, and as it goes on it has read the listing up to there.
Placed == \A k \in 1 .. Len(page.items) : page.items[k].path = page.listing.paths[page.offset + k]
Gathered == page.offset = 0 \/ read = SubSeq(page.listing.paths, 1, page.offset)
ReadInv == Placed /\ (metaPc # "idle" => Gathered) /\ MetadataPagesWhole

\* The paths of the items, one after the other.
PathsOf(items) == [k \in DOMAIN items |-> items[k].path]

\* Paths read from 0 on and a page behind them are the paths up to its end.
LEMMA PathsAre ==
    ASSUME NEW items \in Seq(ItemType), NEW paths \in Seq(Nat), NEW offset \in Nat,
           offset + Len(items) <= Len(paths),
           \A k \in 1 .. Len(items) : items[k].path = paths[offset + k]
    PROVE  SubSeq(paths, 1, offset) \o PathsOf(items) = SubSeq(paths, 1, offset + Len(items))
<1> DEFINE n == Len(items)
           end == offset + n
           a == PathsOf(items)
           b == SubSeq(paths, offset + 1, end)
<1>1. n \in Nat /\ DOMAIN items = 1 .. n /\ Len(paths) \in Nat /\ end \in Nat /\ end <= Len(paths)
  OBVIOUS
<1>2. \A k \in 1 .. n : offset + k \in 1 .. Len(paths) /\ paths[offset + k] \in Nat
  BY <1>1
<1>3. a \in Seq(Nat) /\ Len(a) = n /\ \A k \in 1 .. n : a[k] = paths[offset + k]
  <2>1. a = [k \in 1 .. n |-> items[k].path] /\ \A k \in 1 .. n : items[k].path = paths[offset + k]
    BY <1>1 DEF PathsOf
  <2>2. \A k \in 1 .. n : a[k] = paths[offset + k] /\ a[k] \in Nat
    BY <1>2, <2>1
  <2>3. a = [k \in 1 .. n |-> a[k]]
    BY <2>1
  <2> HIDE DEF a, n
  <2>4. a \in Seq(Nat) /\ Len(a) = n
    BY <1>1, <2>2, <2>3, IsSequence
  <2> QED BY <2>2, <2>4
<1>4. b \in Seq(Nat) /\ Len(b) = n /\ \A k \in 1 .. n : b[k] = paths[offset + k]
  <2>1. \A i \in offset + 1 .. end : paths[i] \in Nat
    BY <1>1
  <2>2. /\ b \in Seq(Nat)
        /\ Len(b) = IF offset + 1 <= end THEN end - (offset + 1) + 1 ELSE 0
        /\ \A i \in 1 .. end - (offset + 1) + 1 : b[i] = paths[offset + 1 + i - 1]
    BY <1>1, <2>1, SubSeqProperties
  <2> HIDE DEF b
  <2>3. Len(b) = n /\ end - (offset + 1) + 1 = n
    BY <1>1, <2>2
  <2>4. \A i \in 1 .. n : offset + 1 + i - 1 = offset + i
    BY <1>1
  <2> QED BY <2>2, <2>3, <2>4
<1> HIDE DEF a, b
<1>5. a = b
  BY <1>3, <1>4, SeqEqual
<1>6. SubSeq(paths, 1, offset) \o b = SubSeq(paths, 1, end)
  <2>1. 1 \in 1 .. Len(paths) + 1 /\ offset \in 1 - 1 .. Len(paths) /\ end \in offset .. Len(paths)
    BY <1>1
  <2> HIDE DEF end
  <2> QED BY <2>1, ConcatAdjacentSubSeq DEF b
<1> QED BY <1>5, <1>6 DEF a

\* An item that is added is the one of the next path.
LEMMA AddedRead ==
    ASSUME PageOK, ReadInv, metaPc # "idle", NEW item \in ItemType, item.path = ListedPath, AddItem(item)
    PROVE  ReadInv'
<1> DEFINE items == Append(page.items, item)
           full == page.items # <<>> /\ TooLong(items)
           taken == IF full THEN page.items ELSE items
           upTo == page.offset + Len(taken)
           over == full \/ Len(taken) = page.limit \/ upTo = Len(page.listing.paths)
           paths == page.listing.paths
           n == Len(page.items)
           o == page.offset
<1>1. /\ page.items \in Seq(ItemType) /\ o \in Nat /\ n \in Nat /\ o + n < Len(paths)
      /\ paths \in Seq(Nat) /\ Len(paths) \in Nat
  BY ListingsAssumption DEF PageOK, ListingType, NoPage
<1>2. item.path = paths[o + (n + 1)]
  BY <1>1, SMTT(30) DEF ListedPath
<1>3. page' = [page EXCEPT !.items = taken]
  BY DEF AddItem
<1>4. \/ over /\ Answer(taken, Following(upTo, page.listing))
      \/ ~over /\ metaPc' = "resolve" /\ looked' = NoFile /\ UNCHANGED <<pageReply, read>>
  BY DEF AddItem
<1>5. items \in Seq(ItemType) /\ Len(items) = n + 1 /\ items[n + 1] = item /\ \A k \in 1 .. n : items[k] = page.items[k]
  BY <1>1
<1> HIDE DEF items, full, n, o, paths
<1>6. \A k \in 1 .. n : page.items[k].path = paths[o + k]
  BY DEF ReadInv, Placed, n, o, paths
<1>7. \A k \in 1 .. n + 1 : items[k].path = paths[o + k]
  <2>1. \A k \in 1 .. n + 1 : k = n + 1 \/ k \in 1 .. n
    BY <1>1
  <2> QED BY <1>2, <1>5, <1>6, <2>1
<1>8. taken \in Seq(ItemType) /\ Len(taken) \in {n, n + 1} /\ \A k \in 1 .. Len(taken) : taken[k].path = paths[o + k]
  BY <1>1, <1>5, <1>6, <1>7 DEF n
<1> HIDE DEF taken, over
<1>9. page'.items = taken /\ page'.offset = o /\ page'.listing = page.listing /\ page'.limit = page.limit
  BY <1>3 DEF PageOK, o
<1>10. Placed'
  BY <1>8, <1>9 DEF Placed, paths
<1>11. CASE over /\ Answer(taken, Following(upTo, page.listing))
  <2>1. metaPc' = "idle" /\ pageReply'.next = Following(upTo, page.listing)
        /\ read' = (IF o = 0 THEN <<>> ELSE read) \o PathsOf(taken)
    BY <1>9, <1>11 DEF Answer, PathsOf
  <2>2. (IF o = 0 THEN <<>> ELSE read) = SubSeq(paths, 1, o)
    <3>1. SubSeq(paths, 1, 0) = <<>>
      BY <1>1, PrefixNone
    <3> QED BY <3>1 DEF ReadInv, Gathered, o, paths
  <2>3. upTo \in Nat /\ upTo <= Len(paths) /\ upTo = o + Len(taken)
    BY <1>1, <1>8 DEF o
  <2>4. read' = SubSeq(paths, 1, upTo)
    BY <1>1, <1>8, <2>1, <2>2, <2>3, PathsAre
  <2> HIDE DEF upTo
  <2>5. CASE upTo < Len(paths)
    <3>1. pageReply'.next = upTo
      BY <2>1, <2>5 DEF Following, paths
    <3>2. upTo # NoOffset
      BY <2>3 DEF NoOffset
    <3>3. MetadataPagesWhole'
      BY <1>9, <2>4, <3>1, <3>2 DEF MetadataPagesWhole, paths
    <3> QED BY <1>10, <2>1, <3>3 DEF ReadInv
  <2>6. CASE ~(upTo < Len(paths))
    <3>1. upTo = Len(paths) /\ pageReply'.next = NoOffset
      BY <1>1, <2>1, <2>3, <2>6 DEF Following, paths
    <3>2. read' = paths
      BY <1>1, <2>4, <3>1, PrefixAll
    <3>3. MetadataPagesWhole'
      BY <1>9, <3>1, <3>2 DEF MetadataPagesWhole, paths
    <3> QED BY <1>10, <2>1, <3>3 DEF ReadInv
  <2> QED BY <2>5, <2>6
<1>12. CASE ~over /\ metaPc' = "resolve" /\ looked' = NoFile /\ UNCHANGED <<pageReply, read>>
  <2>1. Gathered'
    BY <1>9, <1>12 DEF ReadInv, Gathered, o
  <2>2. MetadataPagesWhole'
    BY <1>12 DEF MetadataPagesWhole
  <2> QED BY <1>10, <2>1, <2>2 DEF ReadInv
<1> QED BY <1>4, <1>11, <1>12

\* A step without a client adds an item, or leaves what was read as it is.
Adding == \E item \in ItemType : item.path = ListedPath /\ AddItem(item)
Keeping == UNCHANGED <<page, pageReply, read>> /\ (metaPc' = "idle" <=> metaPc = "idle")

\* The actions that add an item, and those that do not.
LEMMA PathItemAdds ==
    ASSUME PageOK, metaPc # "idle", NEW status \in Statuses, AddItem(PathItem(status))
    PROVE  Adding
<1>1. PathItem(status) \in ItemType
  BY PathItemTyped
<1>2. PathItem(status).path = ListedPath
  BY DEF PathItem
<1> QED BY <1>1, <1>2 DEF Adding

LEMMA FileItemAdds ==
    ASSUME PageOK, LookOK, metaPc # "idle", NEW hash \in {"pending", "ready"}, NEW digest \in Digest,
           AddItem(FileItem(hash, digest))
    PROVE  Adding
<1>1. FileItem(hash, digest) \in ItemType
  BY FileItemTyped
<1>2. FileItem(hash, digest).path = ListedPath
  BY DEF FileItem
<1> QED BY <1>1, <1>2 DEF Adding

LEMMA StemAdds == ASSUME PageOK, metaPc \in {"resolve", "stat"}, Missing \/ ByStem PROVE Adding \/ Keeping
<1>1. CASE Missing
  <2> DEFINE status == IF ListedPath \in Files THEN "stale_missing_file" ELSE "path_only"
  <2>1. status \in Statuses /\ AddItem(PathItem(status))
    BY <1>1 DEF Missing, Statuses
  <2> HIDE DEF status
  <2> QED BY <2>1, PathItemAdds
<1>2. CASE ByStem /\ ~Missing
  <2>1. CASE AddItem(PathItem("ambiguous_file_match"))
    <3>1. "ambiguous_file_match" \in Statuses
      BY DEF Statuses
    <3> QED BY <2>1, <3>1, PathItemAdds
  <2>2. ASSUME NEW f \in StemMatches, Examine(f, "stem") PROVE Keeping
    BY <2>2 DEF Examine, Keeping
  <2> QED BY <1>2, <2>1, <2>2 DEF ByStem
<1> QED BY <1>1, <1>2

LEMMA PendingAdds == ASSUME PageOK, LookOK, metaPc # "idle", Pending PROVE Adding
<1>1. <<>> \in Digest
  BY DEF Digest
<1> QED BY <1>1, FileItemAdds DEF Pending

\* Every step but a request adds an item in its place or leaves the page as it is.
LEMMA StepReads ==
    ASSUME MetaIInv, [MetaNext]_metaVars, ~ClientAsks
    PROVE  (metaPc # "idle" /\ Adding) \/ Keeping
<1>1. PageOK /\ LookOK
  BY DEF MetaIInv, MetaTypeInv
<1>2. ASSUME NEW f \in Files, Write(f) PROVE Keeping
  BY <1>2 DEF Write, Keeping
<1>3. CASE Resolve
  <2>1. ByStem => Adding \/ Keeping
    BY <1>1, <1>3, StemAdds DEF Resolve
  <2>2. Examine(ListedPath, "path") => Keeping
    BY <1>3 DEF Resolve, Examine, Keeping
  <2> QED BY <1>3, <2>1, <2>2 DEF Resolve
<1>4. CASE Stat
  <2>1. ByStem \/ Missing => Adding \/ Keeping
    BY <1>1, <1>4, StemAdds DEF Stat
  <2> QED BY <1>4, <2>1 DEF Stat, Keeping
<1>5. CASE Identify
  BY <1>5 DEF Identify, Keeping
<1>6. CASE Lookup
  <2>1. metaPc # "idle" /\ (Pending => Adding)
    BY <1>1, <1>6, PendingAdds DEF Lookup
  <2> QED BY <1>6, <2>1 DEF Lookup, Keeping
<1>7. CASE Open
  <2>1. metaPc # "idle" /\ (Pending => Adding)
    BY <1>1, <1>7, PendingAdds DEF Open
  <2> QED BY <1>7, <2>1 DEF Open, Keeping
<1>8. CASE ReadOn
  BY <1>8 DEF ReadOn, Keeping
<1>9. CASE Restat
  <2>1. metaPc # "idle" /\ (Pending => Adding)
    BY <1>1, <1>9, PendingAdds DEF Restat
  <2> QED BY <1>9, <2>1 DEF Restat, Keeping
<1>10. CASE Reidentify
  <2>1. metaPc # "idle" /\ (Pending => Adding)
    BY <1>1, <1>10, PendingAdds DEF Reidentify
  <2>2. looked.digest \in Digest /\ "ready" \in {"pending", "ready"}
    BY <1>1 DEF LookOK, LookType
  <2>3. AddItem(FileItem("ready", looked.digest)) => Adding
    BY <1>1, <2>1, <2>2, FileItemAdds
  <2> QED BY <1>10, <2>1, <2>3 DEF Reidentify
<1>11. CASE UNCHANGED metaVars
  BY <1>11 DEF metaVars, Keeping
<1> QED BY <1>2, <1>3, <1>4, <1>5, <1>6, <1>7, <1>8, <1>9, <1>10, <1>11 DEF MetaNext

\* A client begins at the first path, or goes on where it has read up to.
LEMMA AskReads ==
    ASSUME MetaIInv, ReadInv, NEW asked \in ListingType, NEW offset \in Int, NEW limit \in Int,
           AskPage(asked, offset, limit),
           offset > 0 => asked = page.listing /\ offset = pageReply.next /\ page.limit > 0
    PROVE  ReadInv'
<1> DEFINE start == Max({0, offset})
           upTo == Max({0, Min({limit, MaxLimit})})
<1>1. start = IF offset > 0 THEN offset ELSE 0
  BY Pair
<1> HIDE DEF start, upTo
<1>2. /\ metaPc = "idle"
      /\ page' = [listing |-> asked, offset |-> start, limit |-> upTo, items |-> <<>>]
      /\ IF upTo = 0
         THEN Answer(<<>>, IF start < Len(asked.paths) THEN start + 1 ELSE NoOffset)
         ELSE IF start >= Len(asked.paths) THEN Answer(<<>>, NoOffset)
         ELSE metaPc' = "resolve" /\ UNCHANGED <<looked, pageReply, read>>
  BY DEF AskPage, start, upTo
<1>3. page'.listing = asked /\ page'.offset = start /\ page'.limit = upTo /\ page'.items = <<>>
  BY <1>2
<1>4. Placed'
  BY <1>3 DEF Placed
<1>5. CASE upTo = 0
  <2>1. metaPc' = "idle"
    BY <1>2, <1>5 DEF Answer
  <2>2. ~(page'.limit > 0)
    BY <1>3, <1>5
  <2> QED BY <1>4, <2>1, <2>2 DEF ReadInv, MetadataPagesWhole
<1>6. CASE upTo # 0 /\ start >= Len(asked.paths)
  <2>1. Answer(<<>>, NoOffset)
    BY <1>2, <1>6
  <2>2. metaPc' = "idle" /\ pageReply'.next = NoOffset
    BY <2>1 DEF Answer
  <2>3. ~(page'.offset < Len(page'.listing.paths))
    <3>1. Len(asked.paths) \in Nat
      BY ListingsAssumption DEF ListingType, NoPage
    <3> QED BY <1>1, <1>3, <1>6, <3>1
  <2> QED BY <1>4, <2>2, <2>3 DEF ReadInv, MetadataPagesWhole
<1>7. CASE upTo # 0 /\ ~(start >= Len(asked.paths))
  <2>1. metaPc' = "resolve" /\ read' = read
    BY <1>2, <1>7
  <2>2. Gathered'
    <3>1. CASE offset > 0
      <4>1. start = pageReply.next /\ asked = page.listing /\ page.limit > 0 /\ pageReply.next # NoOffset
        BY <1>1, <3>1 DEF NoOffset
      <4>2. read = SubSeq(page.listing.paths, 1, pageReply.next)
        BY <1>2, <4>1 DEF ReadInv, MetadataPagesWhole
      <4> QED BY <1>3, <2>1, <4>1, <4>2 DEF Gathered
    <3>2. CASE ~(offset > 0)
      BY <1>1, <1>3, <3>2 DEF Gathered
    <3> QED BY <3>1, <3>2
  <2> QED BY <1>4, <2>1, <2>2 DEF ReadInv, MetadataPagesWhole
<1> QED BY <1>5, <1>6, <1>7

\* ReadInv is inductive.
LEMMA ReadNext == ASSUME MetaIInv, ReadInv, [MetaNext]_metaVars PROVE ReadInv'
<1>1. CASE ClientAsks
  <2>1. PICK limit \in Limits :
           \/ \E asked \in Listings, offset \in {-1, 0} : AskPage(asked, offset, limit)
           \/ pageReply.next # NoOffset /\ page.limit > 0 /\ AskPage(page.listing, pageReply.next, limit)
    BY <1>1 DEF ClientAsks
  <2>2. limit \in Int
    BY LimitAssumption
  <2>3. ASSUME NEW asked \in Listings, NEW offset \in {-1, 0}, AskPage(asked, offset, limit) PROVE ReadInv'
    <3>1. asked \in ListingType /\ offset \in Int /\ ~(offset > 0)
      BY DEF ListingType
    <3> QED BY <2>2, <2>3, <3>1, AskReads
  <2>4. CASE page.limit > 0 /\ AskPage(page.listing, pageReply.next, limit)
    <3>1. page.listing \in ListingType /\ pageReply.next \in Int
      BY DEF MetaIInv, MetaTypeInv, PageOK, NoOffset
    <3> QED BY <2>2, <2>4, <3>1, AskReads
  <2> QED BY <2>1, <2>3, <2>4
<1>2. CASE metaPc # "idle" /\ Adding
  BY <1>2, AddedRead DEF Adding, MetaIInv, MetaTypeInv
<1>3. CASE Keeping
  BY <1>3 DEF Keeping, ReadInv, Placed, Gathered, MetadataPagesWhole
<1> QED BY <1>1, <1>2, <1>3, StepReads

\* Nothing is read at first.
LEMMA ReadInit == ASSUME MetaInit PROVE ReadInv
<1>1. page = NoPage /\ metaPc = "idle"
  BY DEF MetaInit
<1>2. page.limit = 0 /\ page.items = <<>>
  BY <1>1 DEF NoPage
<1> QED BY <1>1, <1>2 DEF ReadInv, Placed, MetadataPagesWhole

\* A client that goes on from next_offset reads the listing, whole and in order,
\* wherever the size of the replies has cut its pages (_metadata_for_category_items).
THEOREM MetadataAlwaysWhole == MetaSpec => []MetadataPagesWhole
<1>1. MetaInit => MetaIInv /\ ReadInv
  BY MetaInitIInv, ReadInit
<1>2. MetaIInv /\ ReadInv /\ [MetaNext]_metaVars => (MetaIInv /\ ReadInv)'
  BY MetaNextIInv, ReadNext
<1>3. ReadInv => MetadataPagesWhole
  BY DEF ReadInv
<1> QED BY <1>1, <1>2, <1>3, PTL DEF MetaSpec
============================================================
