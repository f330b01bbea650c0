---------------------------- MODULE TokenSyncProofs ----------------------------
(* What holds of TokenSync for every set of tabs and every number of versions.  *)
(*                                                                              *)
(* The properties are about the whole traffic between the tabs, so none of them *)
(* is inductive alone.  A message can be the last one a tab hears, so the last  *)
(* message of every tab that tells must be of the stored token (LastIsStored),  *)
(* which needs that nothing is under way to a tab that is closed or from a tab  *)
(* to itself (OnlyToOpenTabs); and a leader attends to the token that expires   *)
(* because each tab, once it has heard all, watches it (AllWatch).  A sign-out  *)
(* lasts because no renewal can be answered any more (NothingToRenew).          *)
EXTENDS TokenSync, SequenceTheorems, TLAPS

OnlyToOpenTabs == \A s, r \in Tabs : s = r \/ r \notin open => wire[s][r] = <<>>

LastIsStored ==
    ~crossed => \A s \in Tabs, t \in open :
                    wire[s][t] # <<>> => wire[s][t][Len(wire[s][t])] = stored

AllWatch ==
    ~crossed => \A t \in open :
                    (\A s \in Tabs : wire[s][t] = <<>>) =>
                        \/ timer[t] = stored
                        \/ Expired
                        \/ stored > 0 /\ renewal[t] # 0

NothingToRenew ==
    signedOut => /\ stored \in revoked \cup {0}
                 /\ \A t \in Tabs : renewal[t] \in revoked \cup {0}

\* The inductive invariant: of the messages, and of the sign-out.
Traffic == /\ OnlyToOpenTabs
           /\ LastIsStored
           /\ AllWatch
           /\ LeaderAttends

IInv == /\ TypeOK
        /\ Traffic
        /\ SignedOutStaysOut
        /\ NothingToRenew

-------------------------------------------------------------------------------
(* The messages of a channel. *)

\* What is posted last is received last.
LEMMA AppendLast ==
    ASSUME NEW V, NEW m \in Seq(V), NEW n \in Seq(V), n # <<>>
    PROVE  /\ m \o n \in Seq(V)
           /\ m \o n # <<>>
           /\ (m \o n)[Len(m \o n)] = n[Len(n)]
<1>1. /\ m \o n \in Seq(V)
      /\ Len(m \o n) = Len(m) + Len(n)
      /\ \A i \in 1 .. Len(m) + Len(n) :
            (m \o n)[i] = IF i <= Len(m) THEN m[i] ELSE n[i - Len(m)]
  BY ConcatProperties
<1>2. Len(m) \in Nat /\ Len(n) \in Nat /\ Len(n) > 0
  BY EmptySeq
<1>3. /\ Len(m) + Len(n) \in 1 .. Len(m) + Len(n)
      /\ ~(Len(m) + Len(n) <= Len(m))
      /\ Len(m) + Len(n) - Len(m) = Len(n)
      /\ Len(m) + Len(n) # 0
  BY <1>2
<1>4. (m \o n)[Len(m) + Len(n)] = n[Len(m) + Len(n) - Len(m)]
  BY <1>1, <1>3
<1>5. m \o n # <<>>
  BY <1>1, <1>3, EmptySeq
<1>q. QED  BY <1>1, <1>3, <1>4, <1>5

\* A message that is heard leaves the last one where it is, or was the last.
LEMMA TailLast ==
    ASSUME NEW V, NEW m \in Seq(V), m # <<>>
    PROVE  /\ Head(m) \in V
           /\ Tail(m) \in Seq(V)
           /\ Tail(m) # <<>> => Tail(m)[Len(Tail(m))] = m[Len(m)]
           /\ Tail(m) = <<>> => Head(m) = m[Len(m)]
<1>1. /\ Tail(m) \in Seq(V)
      /\ Head(m) \in V
      /\ Head(m) = m[1]
      /\ Len(Tail(m)) = Len(m) - 1
      /\ \A i \in 1 .. Len(Tail(m)) : Tail(m)[i] = m[i + 1]
  BY HeadTailProperties
<1>2. Len(m) \in Nat /\ Len(m) > 0
  BY EmptySeq
<1>3. ASSUME Tail(m) # <<>>  PROVE Tail(m)[Len(Tail(m))] = m[Len(m)]
  <2>1. Len(Tail(m)) > 0  BY <1>1, <1>3, EmptySeq
  <2>2. /\ Len(Tail(m)) \in 1 .. Len(Tail(m))
        /\ Len(Tail(m)) + 1 = Len(m)
    BY <1>1, <1>2, <2>1
  <2>q. QED  BY <1>1, <2>2
<1>4. ASSUME Tail(m) = <<>>  PROVE Head(m) = m[Len(m)]
  <2>1. Len(Tail(m)) = 0  BY <1>1, <1>4, EmptySeq
  <2>2. Len(m) = 1  BY <1>1, <1>2, <2>1
  <2>q. QED  BY <1>1, <2>2
<1>q. QED  BY <1>1, <1>3, <1>4

\* A change of the storage is posted unless nothing was and nothing is stored, and
\* the last message of it is of what is stored then.
LEMMA PostedLast ==
    ASSUME SyncAssumption, NEW v \in Versions, NEW removes \in BOOLEAN
    PROVE  /\ Posted(v, removes) \in Seq(Versions)
           /\ v > 0 \/ removes => /\ Posted(v, removes) # <<>>
                                  /\ Posted(v, removes)[Len(Posted(v, removes))] = v
           /\ ~(v > 0 \/ removes) => Posted(v, removes) = <<>>
<1> USE DEF SyncAssumption
<1>0. 0 \in Versions  BY DEF Versions
<1>1. CASE v > 0
  <2>1. /\ <<v>> \in Seq(Versions)
        /\ <<v>> # <<>>
        /\ Len(<<v>>) = 1
        /\ <<v>>[1] = v
    OBVIOUS
  <2>2. (IF removes THEN <<0>> ELSE <<>>) \in Seq(Versions)
    BY <1>0
  <2>3. Posted(v, removes) = (IF removes THEN <<0>> ELSE <<>>) \o <<v>>
    BY <1>1 DEF Posted
  <2>q. QED  BY <1>1, <2>1, <2>2, <2>3, AppendLast
<1>2. CASE ~(v > 0)
  <2>1. v = 0  BY <1>2 DEF Versions
  <2>2. Posted(v, removes) = IF removes THEN <<0>> ELSE <<>>
    <3>1. Posted(v, removes) = (IF removes THEN <<0>> ELSE <<>>) \o <<>>
      BY <1>2 DEF Posted
    <3>2. <<0>> \o <<>> = <<0>> /\ <<>> \o <<>> = <<>>
      OBVIOUS
    <3>q. QED  BY <3>1, <3>2
  <2>3. /\ <<0>> \in Seq(Versions) /\ <<>> \in Seq(Versions)
        /\ <<0>> # <<>>
        /\ Len(<<0>>) = 1
        /\ <<0>>[1] = 0
    BY <1>0
  <2>4. CASE removes
    <3>1. Posted(v, removes) = <<0>>  BY <2>2, <2>4, Zenon
    <3>q. QED  BY <2>1, <2>3, <2>4, <3>1
  <2>5. CASE ~removes
    <3>1. Posted(v, removes) = <<>>  BY <2>2, <2>5, Zenon
    <3>q. QED  BY <1>2, <2>3, <2>5, <3>1, Zenon
  <2>q. QED  BY <2>4, <2>5
<1>q. QED  BY <1>1, <1>2

\* What a tab that writes does to the messages: it tells every other open tab
\* what is stored now, unless nothing changed.
Tells(t) ==
    /\ wire' \in [Tabs -> [Tabs -> Seq(Versions)]]
    /\ crossed' \in BOOLEAN
    /\ \A s, r \in Tabs : s = r \/ s # t \/ r \notin open \/ r = t =>
                              wire'[s][r] \in {wire[s][r], <<>>}
    /\ \A r \in open \ {t} :
          \/ /\ wire'[t][r] # <<>>
             /\ wire'[t][r][Len(wire'[t][r])] = stored'
          \/ stored' = stored /\ wire'[t][r] = wire[t][r]
    /\ ~crossed' => /\ ~crossed
                    /\ \A s, r \in Tabs : s # t => wire[s][r] = <<>>

\* Who stores or removes tokens tells every other open tab.
LEMMA StoreTells ==
    ASSUME SyncAssumption, TypeOK, NEW t \in Tabs, NEW v \in Versions,
           NEW flag \in BOOLEAN, NEW removes \in BOOLEAN, v > 0 \/ removes,
           Store(t, v, flag, removes)
    PROVE  /\ Tells(t)
           /\ timer' \in [Tabs -> Versions]
           /\ timer'[t] = v
           /\ \A u \in Tabs \ {t} : timer'[u] = timer[u]
<1> DEFINE m == Posted(v, removes)
<1>1. m \in Seq(Versions) /\ m # <<>> /\ m[Len(m)] = v
  BY PostedLast
<1> HIDE DEF m
<1>2. /\ wire \in [Tabs -> [Tabs -> Seq(Versions)]]
      /\ open \subseteq Tabs
      /\ timer \in [Tabs -> Versions]
      /\ crossed \in BOOLEAN
  BY DEF TypeOK
<1>3. wire' = [wire EXCEPT ![t] = [r \in Tabs |->
                   IF r \in open \ {t} THEN wire[t][r] \o m ELSE wire[t][r]]]
  BY <1>2 DEF Store, m
<1>4. \A s, r \in Tabs : wire'[s][r] = IF s = t /\ r \in open \ {t}
                                       THEN wire[s][r] \o m ELSE wire[s][r]
  BY <1>2, <1>3
<1>5. \A r \in Tabs : /\ wire[t][r] \o m \in Seq(Versions)
                      /\ wire[t][r] \o m # <<>>
                      /\ (wire[t][r] \o m)[Len(wire[t][r] \o m)] = v
  <2> TAKE r \in Tabs
  <2>1. wire[t][r] \in Seq(Versions)  BY <1>2
  <2>q. QED  BY <1>1, <2>1, AppendLast
<1>6. wire' \in [Tabs -> [Tabs -> Seq(Versions)]]
  <2>1. [r \in Tabs |-> IF r \in open \ {t} THEN wire[t][r] \o m ELSE wire[t][r]]
            \in [Tabs -> Seq(Versions)]
    BY <1>2, <1>5
  <2>q. QED  BY <1>2, <1>3, <2>1
<1>7. /\ crossed' \in BOOLEAN
      /\ ~crossed' => /\ ~crossed
                      /\ \A s, r \in Tabs : s # t => wire[s][r] = <<>>
  BY <1>2 DEF Store
<1>8. stored' = v
  BY DEF Store
<1>9. \A r \in open \ {t} : /\ wire'[t][r] # <<>>
                            /\ wire'[t][r][Len(wire'[t][r])] = stored'
  BY <1>2, <1>4, <1>5, <1>8
<1>10. timer' = [timer EXCEPT ![t] = v]
  BY DEF Store
<1>q. QED  BY <1>2, <1>4, <1>6, <1>7, <1>9, <1>10 DEF Tells

\* Who signs out tells every other open tab what is stored then.
LEMMA SignOutTells ==
    ASSUME SyncAssumption, TypeOK, NEW t \in Tabs, NEW v \in {0, stored},
           NEW flag, WriteAndGo(t, v, flag)
    PROVE  /\ Tells(t)
           /\ \A s \in Tabs : wire'[s][t] = <<>>
<1> USE DEF SyncAssumption
<1>1. /\ stored' = v
      /\ wire' = [s \in Tabs |-> [r \in Tabs |->
            IF r = t THEN <<>>
            ELSE IF s = t /\ r \in open THEN wire[s][r] \o Posted(v, stored > 0)
            ELSE wire[s][r]]]
      /\ crossed' = (crossed \/ \E s, r \in Tabs : s # t /\ wire[s][r] # <<>>)
  BY DEF WriteAndGo
<1>2. /\ wire \in [Tabs -> [Tabs -> Seq(Versions)]]
      /\ open \subseteq Tabs
      /\ stored \in Versions
      /\ crossed \in BOOLEAN
  BY DEF TypeOK
<1>3. /\ stored' \in {0, stored}
      /\ stored' \in Versions
      /\ (stored > 0) \in BOOLEAN
  <2>1. stored' \in {0, stored}  BY <1>1
  <2>2. 0 \in Versions          BY DEF Versions
  <2>3. (stored > 0) \in BOOLEAN  OBVIOUS
  <2>q. QED  BY <1>2, <2>1, <2>2, <2>3
<1> DEFINE m == Posted(v, stored > 0)
<1>4. /\ m \in Seq(Versions)
      /\ m # <<>> => m[Len(m)] = stored'
      /\ m = <<>> => stored' = stored
  <2>1. /\ m \in Seq(Versions)
        /\ stored' > 0 \/ stored > 0 => m # <<>> /\ m[Len(m)] = stored'
        /\ ~(stored' > 0 \/ stored > 0) => m = <<>>
    BY <1>1, <1>3, PostedLast
  <2>2. ~(stored' > 0 \/ stored > 0) => stored' = 0 /\ stored = 0
    BY <1>2, <1>3 DEF Versions
  <2>q. QED  BY <2>1, <2>2
<1>5. wire' = [s \in Tabs |-> [r \in Tabs |->
                IF r = t THEN <<>>
                ELSE IF s = t /\ r \in open THEN wire[s][r] \o m ELSE wire[s][r]]]
  BY <1>1
<1> HIDE DEF m
<1>6. \A s, r \in Tabs : wire'[s][r] =
          IF r = t THEN <<>>
          ELSE IF s = t /\ r \in open THEN wire[s][r] \o m ELSE wire[s][r]
  BY <1>5
<1>7. \A r \in Tabs :
          /\ wire[t][r] \o m \in Seq(Versions)
          /\ m # <<>> => /\ wire[t][r] \o m # <<>>
                         /\ (wire[t][r] \o m)[Len(wire[t][r] \o m)] = stored'
          /\ m = <<>> => wire[t][r] \o m = wire[t][r]
  <2> TAKE r \in Tabs
  <2>1. wire[t][r] \in Seq(Versions)  BY <1>2
  <2>2. CASE m # <<>>  BY <1>4, <2>1, <2>2, AppendLast
  <2>3. CASE m = <<>>  BY <1>4, <2>1, <2>3, ConcatEmptySeq
  <2>4. m = <<>> \/ m # <<>>  OBVIOUS
  <2>q. QED  BY <2>1, <2>2, <2>3, <2>4
<1>8. wire' \in [Tabs -> [Tabs -> Seq(Versions)]]
  <2>0. <<>> \in Seq(Versions)
    OBVIOUS
  <2>1. \A s, r \in Tabs : wire'[s][r] \in Seq(Versions)
    <3> TAKE s, r \in Tabs
    <3>1. wire[s][r] \in Seq(Versions)  BY <1>2
    <3>2. CASE r = t  BY <1>6, <2>0, <3>2
    <3>3. CASE r # t /\ s = t /\ r \in open  BY <1>6, <1>7, <3>3
    <3>4. CASE r # t /\ ~(s = t /\ r \in open)  BY <1>6, <3>1, <3>4
    <3>q. QED  BY <3>2, <3>3, <3>4
  <2>2. \A s \in Tabs : wire'[s] = [r \in Tabs |-> wire'[s][r]]
    BY <1>5
  <2>3. wire' = [s \in Tabs |-> wire'[s]]
    BY <1>5
  <2>4. \A s \in Tabs : wire'[s] \in [Tabs -> Seq(Versions)]
    BY <2>1, <2>2
  <2>q. QED  BY <2>3, <2>4
<1>9. /\ crossed' \in BOOLEAN
      /\ ~crossed' => /\ ~crossed
                      /\ \A s, r \in Tabs : s # t => wire[s][r] = <<>>
  BY <1>1, <1>2
<1>10. \A r \in open \ {t} :
          \/ /\ wire'[t][r] # <<>>
             /\ wire'[t][r][Len(wire'[t][r])] = stored'
          \/ stored' = stored /\ wire'[t][r] = wire[t][r]
  BY <1>2, <1>4, <1>6, <1>7
<1>11. \A s, r \in Tabs : s = r \/ s # t \/ r \notin open \/ r = t =>
                              wire'[s][r] \in {wire[s][r], <<>>}
  BY <1>6
<1>12. \A s \in Tabs : wire'[s][t] = <<>>
  BY <1>6
<1>q. QED  BY <1>8, <1>9, <1>10, <1>11, <1>12 DEF Tells

-------------------------------------------------------------------------------
(* The messages and the timers. *)

\* A write of tab t leaves the traffic in order: t watches what it stored, and the
\* others are told or nothing changed.
LEMMA WriteInOrder ==
    ASSUME IInv, NEW t \in Tabs, Tells(t), stored' \in Versions,
           open' \subseteq Tabs, open' \subseteq open \cup {t},
           t \in open' => timer'[t] = stored',
           t \notin open' => \A s \in Tabs : wire'[s][t] = <<>>,
           open \subseteq open' \cup {t},
           \A u \in Tabs \ {t} : timer'[u] = timer[u] /\ renewal'[u] = renewal[u],
           leader' \in open' \cup {NoTab}, leader' \in {leader, NoTab},
           old' = old
    PROVE  Traffic'
<1> USE DEF IInv, Traffic
<1>0. /\ wire \in [Tabs -> [Tabs -> Seq(Versions)]]
      /\ open \subseteq Tabs
  BY DEF TypeOK
<1>1. OnlyToOpenTabs'
  <2> SUFFICES ASSUME NEW s \in Tabs, NEW r \in Tabs, s = r \/ r \notin open'
               PROVE  wire'[s][r] = <<>>
    BY DEF OnlyToOpenTabs
  <2>1. CASE r = t /\ r \notin open'  BY <2>1
  <2>2. CASE s = r \/ r \notin open
    <3>1. wire[s][r] = <<>>  BY <2>2 DEF OnlyToOpenTabs
    <3>2. wire'[s][r] \in {wire[s][r], <<>>}  BY <2>2 DEF Tells
    <3>q. QED  BY <3>1, <3>2
  <2>q. QED  BY <2>1, <2>2
<1>2. ASSUME ~crossed', NEW u \in open', u # t
      PROVE  /\ u \in open
             /\ u \in Tabs
             /\ ~crossed
             /\ \A s \in Tabs \ {t} : wire'[s][u] = <<>> /\ wire[s][u] = <<>>
             /\ \/ /\ wire'[t][u] # <<>>
                   /\ wire'[t][u][Len(wire'[t][u])] = stored'
                \/ stored' = stored /\ wire'[t][u] = wire[t][u]
  <2>1. u \in open /\ u \in Tabs  BY <1>0, <1>2
  <2>2. ~crossed /\ \A s, r \in Tabs : s # t => wire[s][r] = <<>>
    BY <1>2 DEF Tells
  <2>3. \A s \in Tabs \ {t} : wire'[s][u] \in {wire[s][u], <<>>}
    BY <2>1 DEF Tells
  <2>4. \/ /\ wire'[t][u] # <<>>
           /\ wire'[t][u][Len(wire'[t][u])] = stored'
        \/ stored' = stored /\ wire'[t][u] = wire[t][u]
    BY <1>2, <2>1 DEF Tells
  <2>q. QED  BY <2>1, <2>2, <2>3, <2>4
<1>3. LastIsStored'
  <2> SUFFICES ASSUME ~crossed', NEW s \in Tabs, NEW u \in open', wire'[s][u] # <<>>
               PROVE  wire'[s][u][Len(wire'[s][u])] = stored'
    BY DEF LastIsStored
  <2>1. CASE u = t
    <3>1. t \in Tabs /\ wire'[s][t] \in {wire[s][t], <<>>}  BY DEF Tells
    <3>2. wire[s][t] # <<>>  BY <2>1, <3>1
    <3>3. s = t => wire[s][t] = <<>>  BY DEF OnlyToOpenTabs
    <3>4. s # t => wire[s][t] = <<>>  BY DEF Tells
    <3>q. QED  BY <3>2, <3>3, <3>4
  <2>2. CASE u # t
    <3>1. s = t  BY <1>2, <2>2
    <3>2. CASE stored' = stored /\ wire'[t][u] = wire[t][u]
      <4>1. u \in open /\ ~crossed  BY <1>2, <2>2
      <4>q. QED  BY <3>1, <3>2, <4>1 DEF LastIsStored
    <3>q. QED  BY <1>2, <2>2, <3>1, <3>2
  <2>q. QED  BY <2>1, <2>2
<1>4. AllWatch'
  <2> SUFFICES ASSUME ~crossed', NEW u \in open',
                      \A s \in Tabs : wire'[s][u] = <<>>
               PROVE  \/ timer'[u] = stored'
                      \/ Expired'
                      \/ stored' > 0 /\ renewal'[u] # 0
    BY DEF AllWatch
  <2>1. CASE u = t  BY <2>1
  <2>2. CASE u # t
    <3>1. stored' = stored /\ wire'[t][u] = wire[t][u]  BY <1>2, <2>2
    <3>2. u \in open /\ u \in Tabs /\ ~crossed  BY <1>2, <2>2
    <3>3. \A s \in Tabs : wire[s][u] = <<>>  BY <1>2, <2>2, <3>1
    <3>4. timer'[u] = timer[u] /\ renewal'[u] = renewal[u]  BY <2>2, <3>2
    <3>5. Expired' <=> Expired  BY <3>1 DEF Expired
    <3>q. QED  BY <3>1, <3>2, <3>3, <3>4, <3>5 DEF AllWatch
  <2>q. QED  BY <2>1, <2>2
<1>5. LeaderAttends'
  <2> SUFFICES ASSUME leader' # NoTab, Expired', ~crossed'
               PROVE  \/ renewal'[leader'] # 0
                      \/ timer'[leader'] = stored'
                      \/ \E s \in Tabs : wire'[s][leader'] # <<>>
    BY DEF LeaderAttends
  <2>1. leader' = leader /\ leader' \in open'  OBVIOUS
  <2>2. CASE leader' = t  BY <2>1, <2>2
  <2>3. CASE leader' # t
    <3>1. CASE wire'[t][leader'] # <<>>  BY <3>1
    <3>2. CASE stored' = stored /\ wire'[t][leader'] = wire[t][leader']
      <4>1. Expired  BY <3>2 DEF Expired
      <4>2. ~crossed /\ leader \in Tabs
            /\ \A s \in Tabs \ {t} : wire'[s][leader] = wire[s][leader]
        BY <1>2, <2>1, <2>3
      <4>3. \/ renewal[leader] # 0
            \/ timer[leader] = stored
            \/ \E s \in Tabs : wire[s][leader] # <<>>
        BY <2>1, <4>1, <4>2 DEF LeaderAttends
      <4>4. timer'[leader] = timer[leader] /\ renewal'[leader] = renewal[leader]
        BY <2>1, <2>3, <4>2
      <4>5. \A s \in Tabs : wire'[s][leader] = wire[s][leader]
        BY <2>1, <3>2, <4>2
      <4>q. QED  BY <2>1, <3>2, <4>3, <4>4, <4>5
    <3>q. QED  BY <1>2, <2>1, <2>3, <3>1, <3>2
  <2>q. QED  BY <2>2, <2>3
<1>q. QED  BY <1>1, <1>3, <1>4, <1>5

\* A tab that receives the last message under way to it watches what is stored.
LEMMA ReceiveInOrder ==
    ASSUME IInv, NEW s \in Tabs, NEW r \in Tabs, Receive(s, r)
    PROVE  TypeOK' /\ Traffic'
<1> USE DEF IInv, Traffic, leaving
<1>0. /\ wire \in [Tabs -> [Tabs -> Seq(Versions)]]
      /\ timer \in [Tabs -> Versions]
      /\ open \subseteq Tabs
      /\ wire[s][r] \in Seq(Versions)
      /\ wire[s][r] # <<>>
  BY DEF TypeOK, Receive
<1>1. /\ UNCHANGED <<stored, old, open, leader, renewal, crossed>>
      /\ timer' = [timer EXCEPT ![r] = Head(wire[s][r])]
      /\ wire' = [wire EXCEPT ![s] = [wire[s] EXCEPT ![r] = Tail(wire[s][r])]]
  BY <1>0 DEF Receive, store
<1>2. /\ Head(wire[s][r]) \in Versions
      /\ Tail(wire[s][r]) \in Seq(Versions)
      /\ Tail(wire[s][r]) # <<>> =>
             Tail(wire[s][r])[Len(Tail(wire[s][r]))] = wire[s][r][Len(wire[s][r])]
      /\ Tail(wire[s][r]) = <<>> => Head(wire[s][r]) = wire[s][r][Len(wire[s][r])]
  BY <1>0, TailLast
<1>3. \A p, q \in Tabs :
          wire'[p][q] = IF p = s /\ q = r THEN Tail(wire[s][r]) ELSE wire[p][q]
  BY <1>0, <1>1
<1>4. \A q \in Tabs : timer'[q] = IF q = r THEN Head(wire[s][r]) ELSE timer[q]
  BY <1>0, <1>1
<1>5. s # r /\ r \in open
  BY <1>0 DEF OnlyToOpenTabs
<1>6. TypeOK'
  <2>1. timer' \in [Tabs -> Versions]  BY <1>0, <1>1, <1>2
  <2>2. wire' \in [Tabs -> [Tabs -> Seq(Versions)]]  BY <1>0, <1>1, <1>2
  <2>q. QED  BY <2>1, <2>2 DEF TypeOK, Receive, store
<1>7. OnlyToOpenTabs'
  BY <1>1, <1>3, <1>5 DEF OnlyToOpenTabs
<1>8. LastIsStored'
  <2> SUFFICES ASSUME ~crossed, NEW p \in Tabs, NEW q \in open, wire'[p][q] # <<>>
               PROVE  wire'[p][q][Len(wire'[p][q])] = stored
    BY <1>1 DEF LastIsStored
  <2>0. q \in Tabs  BY <1>0
  <2>1. CASE p = s /\ q = r
    BY <1>0, <1>2, <1>3, <1>5, <2>0, <2>1 DEF LastIsStored
  <2>2. CASE ~(p = s /\ q = r)
    BY <1>3, <2>0, <2>2 DEF LastIsStored
  <2>q. QED  BY <2>1, <2>2
<1>9. ASSUME ~crossed, \A p \in Tabs : wire'[p][r] = <<>>
      PROVE  timer'[r] = stored
  <2>1. Tail(wire[s][r]) = <<>>  BY <1>3, <1>9
  <2>2. timer'[r] = wire[s][r][Len(wire[s][r])]  BY <1>2, <1>4, <2>1
  <2>q. QED  BY <1>0, <1>5, <1>9, <2>2 DEF LastIsStored
<1>10. AllWatch'
  <2> SUFFICES ASSUME ~crossed, NEW u \in open, \A p \in Tabs : wire'[p][u] = <<>>
               PROVE  \/ timer'[u] = stored
                      \/ Expired
                      \/ stored > 0 /\ renewal[u] # 0
    BY <1>1 DEF AllWatch, Expired
  <2>1. CASE u = r  BY <1>9, <2>1
  <2>2. CASE u # r
    <3>1. u \in Tabs  BY <1>0
    <3>2. timer'[u] = timer[u]  BY <1>4, <2>2, <3>1
    <3>3. \A p \in Tabs : wire[p][u] = <<>>  BY <1>3, <2>2, <3>1
    <3>q. QED  BY <3>2, <3>3 DEF AllWatch
  <2>q. QED  BY <2>1, <2>2
<1>11. LeaderAttends'
  <2> SUFFICES ASSUME leader # NoTab, Expired, ~crossed,
                      \A p \in Tabs : wire'[p][leader] = <<>>
               PROVE  renewal[leader] # 0 \/ timer'[leader] = stored
    BY <1>1 DEF LeaderAttends, Expired
  <2>1. leader \in Tabs  BY DEF TypeOK
  <2>2. CASE leader = r  BY <1>9, <2>2
  <2>3. CASE leader # r
    <3>1. \A p \in Tabs : wire[p][leader] = <<>>  BY <1>3, <2>1, <2>3
    <3>2. timer'[leader] = timer[leader]  BY <1>4, <2>1, <2>3
    <3>q. QED  BY <3>1, <3>2 DEF LeaderAttends
  <2>q. QED  BY <2>2, <2>3
<1>q. QED  BY <1>6, <1>7, <1>8, <1>10, <1>11

\* A renewal only begins with the stored token, and a timer only goes when the
\* token it waits for expired: a leader that finds one expired renews it.
LEMMA RenewInOrder ==
    ASSUME IInv, NEW t \in Tabs,
           UNCHANGED <<store, open, wire, leaving, crossed, signedOut>>,
           leader' \in open \cup {NoTab},
           leader' \in {leader, t},
           timer' \in [Tabs -> Versions], renewal' \in [Tabs -> Versions],
           \A u \in Tabs \ {t} : timer'[u] = timer[u] /\ renewal'[u] = renewal[u],
           renewal'[t] \in {renewal[t], stored},
           renewal[t] # 0 => renewal'[t] # 0,
           timer'[t] # timer[t] /\ timer[t] = stored => Expired,
           leader' = t /\ Expired => renewal'[t] # 0
    PROVE  TypeOK' /\ Traffic' /\ SignedOutStaysOut' /\ NothingToRenew'
<1> USE DEF IInv, Traffic, leaving
<1>0. UNCHANGED <<stored, flagged, issued, old, revoked>> /\ (Expired' <=> Expired)
  BY DEF store, Expired
<1>1. TypeOK'
  BY <1>0 DEF TypeOK
<1>2. OnlyToOpenTabs' /\ LastIsStored'
  BY <1>0 DEF OnlyToOpenTabs, LastIsStored
<1>3. AllWatch'
  <2> SUFFICES ASSUME ~crossed, NEW u \in open, \A s \in Tabs : wire[s][u] = <<>>
               PROVE  \/ timer'[u] = stored
                      \/ Expired
                      \/ stored > 0 /\ renewal'[u] # 0
    BY <1>0 DEF AllWatch
  <2>1. u \in Tabs  BY DEF TypeOK
  <2>2. \/ timer[u] = stored
        \/ Expired
        \/ stored > 0 /\ renewal[u] # 0
    BY DEF AllWatch
  <2>3. CASE u = t  BY <2>2, <2>3
  <2>4. CASE u # t  BY <2>1, <2>2, <2>4
  <2>q. QED  BY <2>3, <2>4
<1>4. LeaderAttends'
  <2> SUFFICES ASSUME leader' # NoTab, Expired, ~crossed, leader' # t
               PROVE  \/ renewal'[leader'] # 0
                      \/ timer'[leader'] = stored
                      \/ \E s \in Tabs : wire[s][leader'] # <<>>
    BY <1>0 DEF LeaderAttends
  <2>1. leader' = leader /\ leader' \in Tabs  BY DEF TypeOK
  <2>2. timer'[leader] = timer[leader] /\ renewal'[leader] = renewal[leader]
    BY <2>1
  <2>q. QED  BY <2>1, <2>2 DEF LeaderAttends
<1>5. SignedOutStaysOut'
  BY <1>0 DEF SignedOutStaysOut
<1>6. NothingToRenew'
  <2> SUFFICES ASSUME signedOut
               PROVE  /\ stored \in revoked \cup {0}
                      /\ \A u \in Tabs : renewal'[u] \in revoked \cup {0}
    BY <1>0 DEF NothingToRenew
  <2>1. /\ stored \in revoked \cup {0}
        /\ \A u \in Tabs : renewal[u] \in revoked \cup {0}
    BY DEF NothingToRenew
  <2>2. \A u \in Tabs : renewal'[u] \in {renewal[u], stored}
    OBVIOUS
  <2>q. QED  BY <2>1, <2>2
<1>q. QED  BY <1>1, <1>2, <1>3, <1>4, <1>5, <1>6

-------------------------------------------------------------------------------
\* Nothing is stored, posted or signed out at first.
LEMMA InitIInv == SyncAssumption /\ Init => IInv
<1> SUFFICES ASSUME SyncAssumption, Init  PROVE IInv
  OBVIOUS
<1>1. TypeOK
  <2>1. 0 \in Versions /\ <<>> \in Seq(Versions)  BY DEF SyncAssumption, Versions
  <2>q. QED  BY <2>1 DEF Init, TypeOK
<1>2. Traffic
  BY DEF Init, Traffic, OnlyToOpenTabs, LastIsStored, AllWatch, LeaderAttends
<1>3. SignedOutStaysOut /\ NothingToRenew
  BY DEF Init, SignedOutStaysOut, NothingToRenew
<1>q. QED  BY <1>1, <1>2, <1>3 DEF IInv

\* Every step keeps the invariant.
LEMMA StepIInv == SyncAssumption /\ IInv /\ [Next]_vars => IInv'
<1> SUFFICES ASSUME SyncAssumption, IInv, [Next]_vars  PROVE IInv'
  OBVIOUS
<1> USE DEF IInv, leaving
<1>0. /\ {stored, issued, old} \subseteq Versions
      /\ flagged \in BOOLEAN /\ crossed \in BOOLEAN /\ signedOut \in BOOLEAN
      /\ revoked \subseteq Versions
      /\ open \subseteq Tabs
      /\ leader \in open \cup {NoTab}
      /\ timer \in [Tabs -> Versions]
      /\ renewal \in [Tabs -> Versions]
      /\ revoking \in [Tabs -> Versions]
      /\ closing \subseteq open
      /\ wire \in [Tabs -> [Tabs -> Seq(Versions)]]
  BY DEF TypeOK
<1>00. 0 \in Versions /\ NoTab \notin Tabs
  BY DEF SyncAssumption, Versions
<1>1. ASSUME NEW t \in open, Login(t)  PROVE IInv'
  <2>0. issued + 1 \in Versions /\ issued + 1 > 0
    <3>1. issued < MaxVersion  BY <1>1 DEF Login
    <3>q. QED  BY SMTT(30), <1>0, <3>1 DEF Versions, SyncAssumption
  <2>1. /\ Store(t, issued + 1, FALSE, stored > 0)
        /\ issued + 1 \in Versions /\ issued + 1 > 0
        /\ issued' = issued + 1
        /\ signedOut' = FALSE
        /\ UNCHANGED <<old, revoked, open, leader, renewal, leaving>>
    BY <1>1, <2>0, Zenon DEF Login
  <2>2. stored' = issued + 1 /\ flagged' = FALSE  BY <2>1 DEF Store
  <2>3. t \in Tabs /\ (stored > 0) \in BOOLEAN  BY <1>0
  <2>4. /\ Tells(t)
        /\ timer' \in [Tabs -> Versions]
        /\ timer'[t] = stored'
        /\ \A u \in Tabs \ {t} : timer'[u] = timer[u]
    BY <2>1, <2>2, <2>3, StoreTells
  <2>5. TypeOK'
    <3>1. wire' \in [Tabs -> [Tabs -> Seq(Versions)]] /\ crossed' \in BOOLEAN
      BY <2>4 DEF Tells
    <3>2. /\ flagged' \in BOOLEAN /\ signedOut' \in BOOLEAN
          /\ {stored', issued', old'} \subseteq Versions
      BY <1>0, <2>1, <2>2
    <3>q. QED  BY <1>0, <2>1, <2>4, <3>1, <3>2 DEF TypeOK
  <2>6. Traffic'
    BY <1>0, <2>1, <2>2, <2>3, <2>4, WriteInOrder
  <2>q. QED  BY <2>1, <2>5, <2>6 DEF SignedOutStaysOut, NothingToRenew
<1>2. ASSUME NEW t \in open, RemoveToken(t)  PROVE IInv'
  <2>1. /\ Store(t, 0, FALSE, TRUE)
        /\ UNCHANGED <<issued, old, revoked, open, leader, renewal, leaving, signedOut>>
    BY <1>2 DEF RemoveToken
  <2>2. stored' = 0 /\ flagged' = FALSE  BY <2>1 DEF Store
  <2>3. t \in Tabs  BY <1>0
  <2>4. /\ Tells(t)
        /\ timer' \in [Tabs -> Versions]
        /\ timer'[t] = stored'
        /\ \A u \in Tabs \ {t} : timer'[u] = timer[u]
    BY <1>00, <2>1, <2>2, <2>3, StoreTells
  <2>5. TypeOK'
    <3>1. wire' \in [Tabs -> [Tabs -> Seq(Versions)]] /\ crossed' \in BOOLEAN
      BY <2>4 DEF Tells
    <3>q. QED  BY <1>0, <1>00, <2>1, <2>2, <2>4, <3>1 DEF TypeOK
  <2>6. Traffic'
    BY <1>0, <1>00, <2>1, <2>2, <2>3, <2>4, WriteInOrder
  <2>q. QED  BY <2>1, <2>2, <2>5, <2>6 DEF SignedOutStaysOut, NothingToRenew
<1>3. ASSUME NEW t \in open, RenewalAnswered(t)  PROVE IInv'
  <2>0. issued + 1 \in Versions /\ issued + 1 > 0
    <3>1. issued < MaxVersion  BY <1>3 DEF RenewalAnswered
    <3>q. QED  BY SMTT(30), <1>0, <3>1 DEF Versions, SyncAssumption
  <2>1. /\ Store(t, issued + 1, FALSE, stored > 0)
        /\ issued + 1 \in Versions /\ issued + 1 > 0
        /\ issued' = issued + 1
        /\ renewal' = [renewal EXCEPT ![t] = 0]
        /\ renewal[t] \notin revoked \cup {0}
        /\ UNCHANGED <<old, revoked, open, leader, leaving, signedOut>>
    BY <1>3, <2>0, Zenon DEF RenewalAnswered
  <2>2. stored' = issued + 1 /\ flagged' = FALSE  BY <2>1 DEF Store
  <2>3. t \in Tabs /\ (stored > 0) \in BOOLEAN  BY <1>0
  <2>4. /\ Tells(t)
        /\ timer' \in [Tabs -> Versions]
        /\ timer'[t] = stored'
        /\ \A u \in Tabs \ {t} : timer'[u] = timer[u]
    BY <2>1, <2>2, <2>3, StoreTells
  <2>5. /\ renewal' \in [Tabs -> Versions]
        /\ \A u \in Tabs \ {t} : renewal'[u] = renewal[u]
    BY <1>0, <1>00, <2>1
  <2>6. TypeOK'
    <3>1. wire' \in [Tabs -> [Tabs -> Seq(Versions)]] /\ crossed' \in BOOLEAN
      BY <2>4 DEF Tells
    <3>q. QED  BY <1>0, <2>1, <2>2, <2>4, <2>5, <3>1 DEF TypeOK
  <2>7. Traffic'
    BY <1>0, <2>1, <2>2, <2>3, <2>4, <2>5, WriteInOrder
  <2>8. ~signedOut'
    BY <2>1, <2>3 DEF NothingToRenew
  <2>q. QED  BY <2>6, <2>7, <2>8 DEF SignedOutStaysOut, NothingToRenew
<1>4. ASSUME NEW t \in open, RenewalFails(t)  PROVE IInv'
  <2>1. /\ Store(t, 0, FALSE, TRUE)
        /\ renewal' = [renewal EXCEPT ![t] = 0]
        /\ UNCHANGED <<issued, old, revoked, open, leader, leaving, signedOut>>
    BY <1>4 DEF RenewalFails
  <2>2. stored' = 0 /\ flagged' = FALSE  BY <2>1 DEF Store
  <2>3. t \in Tabs  BY <1>0
  <2>4. /\ Tells(t)
        /\ timer' \in [Tabs -> Versions]
        /\ timer'[t] = stored'
        /\ \A u \in Tabs \ {t} : timer'[u] = timer[u]
    BY <1>00, <2>1, <2>2, <2>3, StoreTells
  <2>5. /\ renewal' \in [Tabs -> Versions]
        /\ \A u \in Tabs : renewal'[u] = IF u = t THEN 0 ELSE renewal[u]
    BY <1>0, <1>00, <2>1
  <2>6. TypeOK'
    <3>1. wire' \in [Tabs -> [Tabs -> Seq(Versions)]] /\ crossed' \in BOOLEAN
      BY <2>4 DEF Tells
    <3>q. QED  BY <1>0, <1>00, <2>1, <2>2, <2>4, <2>5, <3>1 DEF TypeOK
  <2>7. Traffic'
    BY <1>0, <1>00, <2>1, <2>2, <2>3, <2>4, <2>5, WriteInOrder
  <2>8. SignedOutStaysOut' /\ NothingToRenew'
    BY <2>1, <2>2, <2>5 DEF SignedOutStaysOut, NothingToRenew
  <2>q. QED  BY <2>6, <2>7, <2>8
<1>5. ASSUME Expire  PROVE IInv'
  <2>1. /\ old' = old + 1 /\ old + 1 \in Versions
        /\ UNCHANGED <<stored, flagged, issued, revoked, open, leader, timer,
                       renewal, wire, leaving, crossed, signedOut>>
    BY <1>0, <1>5 DEF Expire, Versions, SyncAssumption
  <2>2. TypeOK'  BY <1>0, <2>1 DEF TypeOK
  <2>3. Expired => Expired'
    BY <1>0, <2>1 DEF Expired, Versions
  <2>4. OnlyToOpenTabs' /\ LastIsStored' /\ AllWatch'
    BY <2>1, <2>3 DEF Traffic, OnlyToOpenTabs, LastIsStored, AllWatch
  <2>5. LeaderAttends'
    <3> SUFFICES ASSUME leader # NoTab, Expired', ~crossed,
                        \A s \in Tabs : wire[s][leader] = <<>>
                 PROVE  renewal[leader] # 0 \/ timer[leader] = stored
      BY <2>1 DEF LeaderAttends
    <3>1. leader \in open  BY <1>0
    <3>2. CASE Expired
      BY <3>1, <3>2 DEF Traffic, LeaderAttends
    <3>3. CASE ~Expired
      BY <3>1, <3>3 DEF Traffic, AllWatch
    <3>q. QED  BY <3>2, <3>3
  <2>6. SignedOutStaysOut' /\ NothingToRenew'
    BY <2>1 DEF SignedOutStaysOut, NothingToRenew
  <2>q. QED  BY <2>2, <2>4, <2>5, <2>6 DEF Traffic
<1>6. ASSUME NEW t \in open, TimerFires(t)  PROVE IInv'
  <2>1. /\ timer[t] \in 1 .. old
        /\ timer' = [timer EXCEPT ![t] = 0]
        /\ renewal' = [renewal EXCEPT ![t] =
                          IF renewal[t] = 0 /\ leader = t THEN stored ELSE renewal[t]]
        /\ UNCHANGED <<store, open, leader, wire, leaving, crossed, signedOut>>
    BY <1>0, <1>6 DEF TimerFires
  <2>2. t \in Tabs  BY <1>0
  <2>3. /\ timer' \in [Tabs -> Versions]
        /\ renewal' \in [Tabs -> Versions]
        /\ \A u \in Tabs \ {t} : timer'[u] = timer[u] /\ renewal'[u] = renewal[u]
        /\ renewal'[t] = IF renewal[t] = 0 /\ leader = t THEN stored ELSE renewal[t]
    BY <1>0, <1>00, <2>1, <2>2
  <2>4. timer'[t] # timer[t] /\ timer[t] = stored => Expired
    BY <1>0, <2>1 DEF Expired, Versions
  <2>5. leader' = t /\ Expired => renewal'[t] # 0
    BY <1>0, <2>1, <2>3 DEF Expired, Versions
  <2>6. TypeOK' /\ Traffic' /\ SignedOutStaysOut' /\ NothingToRenew'
    BY <1>0, <2>1, <2>2, <2>3, <2>4, <2>5, RenewInOrder
  <2>q. QED  BY <2>6
<1>7. ASSUME NEW t \in open, Expired, Renew(t)
      PROVE  /\ timer' \in [Tabs -> Versions]
             /\ renewal' \in [Tabs -> Versions]
             /\ \A u \in Tabs \ {t} : timer'[u] = timer[u] /\ renewal'[u] = renewal[u]
             /\ renewal'[t] \in {renewal[t], stored}
             /\ renewal'[t] # 0
  <2>1. t \in Tabs /\ stored # 0  BY <1>0, <1>7 DEF Expired, Versions
  <2>2. /\ renewal' = [renewal EXCEPT ![t] = IF renewal[t] = 0 THEN stored
                                             ELSE renewal[t]]
        /\ timer' = IF renewal[t] # 0 THEN timer ELSE [timer EXCEPT ![t] = 0]
    BY <1>0, <1>7, <2>1 DEF Renew
  <2>q. QED  BY <1>0, <1>00, <2>1, <2>2
<1>8. ASSUME NEW t \in open, BecomesLeader(t)  PROVE IInv'
  <2>1. /\ leader' = t
        /\ IF Expired THEN Renew(t) ELSE UNCHANGED <<timer, renewal>>
        /\ UNCHANGED <<store, open, wire, leaving, crossed, signedOut>>
    BY <1>8 DEF BecomesLeader
  <2>2. t \in Tabs  BY <1>0
  <2>3. CASE Expired
    BY <1>0, <1>7, <2>1, <2>2, <2>3, RenewInOrder
  <2>4. CASE ~Expired
    BY <1>0, <2>1, <2>2, <2>4, RenewInOrder
  <2>q. QED  BY <2>3, <2>4
<1>9. ASSUME NEW t \in open, ReturnsToTab(t)  PROVE IInv'
  <2>1. /\ Expired /\ Renew(t)
        /\ UNCHANGED <<store, open, leader, wire, leaving, crossed, signedOut>>
    BY <1>9 DEF ReturnsToTab
  <2>2. t \in Tabs  BY <1>0
  <2>q. QED  BY <1>0, <1>7, <2>1, <2>2, RenewInOrder
<1>10. ASSUME NEW s \in Tabs, NEW r \in Tabs, Receive(s, r)  PROVE IInv'
  <2>1. TypeOK' /\ Traffic'
    BY <1>10, ReceiveInOrder
  <2>2. SignedOutStaysOut' /\ NothingToRenew'
    BY <1>10 DEF Receive, store, SignedOutStaysOut, NothingToRenew
  <2>q. QED  BY <2>1, <2>2
<1>11. ASSUME NEW t \in Tabs \ open, Open(t)  PROVE IInv'
  <2>1. /\ open' = open \cup {t}
        /\ UNCHANGED <<issued, old, revoked, leader, renewal, leaving, signedOut>>
    BY <1>11 DEF Open
  <2>2. CASE flagged
    <3>1. Store(t, 0, FALSE, TRUE)  BY <1>11, <2>2 DEF Open
    <3>2. stored' = 0 /\ flagged' = FALSE  BY <3>1 DEF Store
    <3>3. /\ Tells(t)
          /\ timer' \in [Tabs -> Versions]
          /\ timer'[t] = stored'
          /\ \A u \in Tabs \ {t} : timer'[u] = timer[u]
      BY <1>00, <3>1, <3>2, StoreTells
    <3>4. TypeOK'
      <4>1. wire' \in [Tabs -> [Tabs -> Seq(Versions)]] /\ crossed' \in BOOLEAN
        BY <3>3 DEF Tells
      <4>q. QED  BY <1>0, <1>00, <2>1, <3>2, <3>3, <4>1 DEF TypeOK
    <3>5. Traffic'
      BY <1>0, <1>00, <2>1, <3>2, <3>3, WriteInOrder
    <3>q. QED  BY <2>1, <3>2, <3>4, <3>5 DEF SignedOutStaysOut, NothingToRenew
  <2>3. CASE ~flagged
    <3>1. /\ timer' = [timer EXCEPT ![t] = stored]
          /\ UNCHANGED <<stored, flagged, wire, crossed>>
      BY <1>11, <2>3 DEF Open
    <3>2. \A s \in Tabs : wire[s][t] = <<>>
      BY DEF Traffic, OnlyToOpenTabs
    <3>3. \A u \in Tabs : timer'[u] = IF u = t THEN stored ELSE timer[u]
      BY <1>0, <3>1
    <3>4. TypeOK'
      <4>1. timer' \in [Tabs -> Versions]  BY <1>0, <3>1
      <4>q. QED  BY <1>0, <2>1, <3>1, <4>1 DEF TypeOK
    <3>5. OnlyToOpenTabs' /\ LastIsStored'
      BY <2>1, <3>1, <3>2 DEF Traffic, OnlyToOpenTabs, LastIsStored
    <3>6. Expired' <=> Expired  BY <2>1, <3>1 DEF Expired
    <3>7. AllWatch'
      BY <1>0, <2>1, <3>1, <3>3, <3>6 DEF Traffic, AllWatch
    <3>8. LeaderAttends'
      <4>1. leader # NoTab => timer'[leader] = timer[leader]
        BY <1>0, <3>3
      <4>q. QED  BY <2>1, <3>1, <3>6, <4>1 DEF Traffic, LeaderAttends
    <3>9. SignedOutStaysOut' /\ NothingToRenew'
      BY <2>1, <3>1 DEF SignedOutStaysOut, NothingToRenew
    <3>q. QED  BY <3>4, <3>5, <3>7, <3>8, <3>9 DEF Traffic
  <2>q. QED  BY <2>2, <2>3
<1>12. ASSUME NEW t \in open, Gone(t)
       PROVE  /\ open' = open \ {t}
              /\ leader' \in open' \cup {NoTab}
              /\ leader' \in {leader, NoTab}
              /\ renewal' \in [Tabs -> Versions]
              /\ revoking' \in [Tabs -> Versions]
              /\ closing' \subseteq open'
              /\ renewal'[t] = 0
              /\ \A u \in Tabs \ {t} : renewal'[u] = renewal[u]
  BY <1>0, <1>00, <1>12 DEF Gone
<1>13. ASSUME NEW t \in open, Close(t)  PROVE IInv'
  <2>1. /\ Gone(t)
        /\ timer' = [timer EXCEPT ![t] = 0]
        /\ wire' = [s \in Tabs |-> [wire[s] EXCEPT ![t] = <<>>]]
        /\ UNCHANGED <<store, crossed, signedOut>>
    BY <1>13 DEF Close
  <2>2. UNCHANGED <<stored, flagged, issued, old, revoked>> /\ (Expired' <=> Expired)
    BY <2>1 DEF store, Expired
  <2>3. t \in Tabs  BY <1>0
  <2>4. \A s, r \in Tabs : wire'[s][r] = IF r = t THEN <<>> ELSE wire[s][r]
    BY <1>0, <2>1
  <2>5. \A u \in Tabs \ {t} : timer'[u] = timer[u]
    BY <1>0, <2>1
  <2>6. TypeOK'
    <3>1. timer' \in [Tabs -> Versions]  BY <1>0, <1>00, <2>1
    <3>2. wire' \in [Tabs -> [Tabs -> Seq(Versions)]]
      <4>1. <<>> \in Seq(Versions)  OBVIOUS
      <4>q. QED  BY <1>0, <2>1, <4>1
    <3>q. QED  BY <1>0, <1>12, <2>1, <2>2, <3>1, <3>2 DEF TypeOK
  <2>7. OnlyToOpenTabs' /\ LastIsStored'
    BY <1>0, <1>12, <2>1, <2>2, <2>4 DEF Traffic, OnlyToOpenTabs, LastIsStored
  <2>8. AllWatch'
    <3> SUFFICES ASSUME ~crossed, NEW u \in open', \A s \in Tabs : wire'[s][u] = <<>>
                 PROVE  \/ timer'[u] = stored
                        \/ Expired
                        \/ stored > 0 /\ renewal'[u] # 0
      BY <2>1, <2>2 DEF AllWatch
    <3>1. u # t /\ u \in open /\ u \in Tabs  BY <1>0, <1>12, <2>1
    <3>2. timer'[u] = timer[u] /\ renewal'[u] = renewal[u]  BY <1>12, <2>1, <2>5, <3>1
    <3>3. \A s \in Tabs : wire[s][u] = <<>>  BY <2>4, <3>1
    <3>q. QED  BY <3>1, <3>2, <3>3 DEF Traffic, AllWatch
  <2>9. LeaderAttends'
    <3> SUFFICES ASSUME leader' # NoTab, Expired, ~crossed
                 PROVE  \/ renewal'[leader'] # 0
                        \/ timer'[leader'] = stored
                        \/ \E s \in Tabs : wire'[s][leader'] # <<>>
      BY <2>1, <2>2 DEF LeaderAttends
    <3>1. leader' = leader /\ leader \in Tabs \ {t}  BY <1>0, <1>12, <2>1
    <3>2. timer'[leader] = timer[leader] /\ renewal'[leader] = renewal[leader]
      BY <1>12, <2>1, <2>5, <3>1
    <3>3. \A s \in Tabs : wire'[s][leader] = wire[s][leader]  BY <2>4, <3>1
    <3>q. QED  BY <3>1, <3>2, <3>3 DEF Traffic, LeaderAttends
  <2>10. SignedOutStaysOut' /\ NothingToRenew'
    BY <1>12, <2>1, <2>2 DEF SignedOutStaysOut, NothingToRenew
  <2>q. QED  BY <2>6, <2>7, <2>8, <2>9, <2>10 DEF Traffic
<1>14. ASSUME revoking' \in [Tabs -> Versions], closing' \subseteq open,
              revoked' \subseteq Versions, revoked \subseteq revoked',
              UNCHANGED <<stored, flagged, issued, old, open, leader, timer, renewal,
                          wire, crossed, signedOut>>
       PROVE  IInv'
  <2>1. TypeOK'
    BY <1>0, <1>14 DEF TypeOK
  <2>2. Traffic'
    BY <1>14 DEF Traffic, OnlyToOpenTabs, LastIsStored, AllWatch, LeaderAttends,
                 Expired
  <2>3. SignedOutStaysOut' /\ NothingToRenew'
    BY <1>14 DEF SignedOutStaysOut, NothingToRenew
  <2>q. QED  BY <2>1, <2>2, <2>3
<1>15. ASSUME NEW t \in open, NEW v \in {0, stored}, WriteAndGo(t, v, v > 0),
              NEW gone, signedOut' = Lasts(t, v, gone), revoked' = gone,
              gone \subseteq Versions, UNCHANGED <<issued, old>>
       PROVE  IInv'
  <2>1. /\ stored' = v
        /\ flagged' = (v > 0)
        /\ timer' = [timer EXCEPT ![t] = 0]
        /\ Gone(t)
    BY <1>15 DEF WriteAndGo
  <2>2. t \in Tabs /\ v \in Versions  BY <1>0, <1>00
  <2>3. Tells(t) /\ \A s \in Tabs : wire'[s][t] = <<>>
    BY <1>15, <2>2, SignOutTells
  <2>4. /\ timer' \in [Tabs -> Versions]
        /\ \A u \in Tabs \ {t} : timer'[u] = timer[u]
    BY <1>0, <1>00, <2>1
  <2>5. signedOut' <=> v \in gone \cup {0} /\ \A u \in Tabs \ {t} : renewal[u] = 0
    BY <1>15 DEF Lasts
  <2>6. TypeOK'
    <3>1. wire' \in [Tabs -> [Tabs -> Seq(Versions)]] /\ crossed' \in BOOLEAN
      BY <2>3 DEF Tells
    <3>2. flagged' \in BOOLEAN /\ signedOut' \in BOOLEAN
      <4>1. (v > 0) \in BOOLEAN  BY <2>2 DEF Versions
      <4>2. Lasts(t, v, gone) \in BOOLEAN  BY DEF Lasts
      <4>q. QED  BY <1>15, <2>1, <4>1, <4>2
    <3>q. QED  BY <1>0, <1>12, <1>15, <2>1, <2>2, <2>4, <3>1, <3>2 DEF TypeOK
  <2>7. Traffic'
    <3>1. /\ open' = open \ {t} /\ renewal' = [renewal EXCEPT ![t] = 0]
          /\ leader' \in {leader, NoTab} \ {t}
      BY <1>0, <1>00, <2>1, <2>2 DEF Gone
    <3>2. \A u \in Tabs \ {t} : timer'[u] = timer[u] /\ renewal'[u] = renewal[u]
      BY <1>0, <2>4, <3>1
    <3>3. open' \subseteq Tabs /\ leader' \in open' \cup {NoTab}
      BY <1>0, <3>1
    <3>q. QED  BY <1>15, <2>1, <2>2, <2>3, <3>1, <3>2, <3>3, WriteInOrder
  <2>8. SignedOutStaysOut'
    <3>1. v = 0 \/ v > 0  BY <2>2 DEF Versions
    <3>q. QED  BY <2>1, <3>1 DEF SignedOutStaysOut
  <2>9. NothingToRenew'
    BY <1>12, <1>15, <2>1, <2>5 DEF NothingToRenew
  <2>q. QED  BY <2>6, <2>7, <2>8, <2>9
<1>17. ASSUME NEW t \in open, NEW gone, gone \subseteq Versions, revoked \subseteq gone,
              GoesOn(t, gone)
       PROVE  IInv'
  <2>1. CASE CloseSession(t)
    BY <1>0, <1>00, <1>14, <1>17, <2>1 DEF GoesOn, CloseSession
  <2>2. CASE WriteAndGo(t, 0, FALSE) /\ signedOut' = Lasts(t, 0, gone)
    <3>1. (0 > 0) = FALSE  OBVIOUS
    <3>2. WriteAndGo(t, 0, 0 > 0)  BY <2>2, <3>1
    <3>q. QED  BY <1>15, <1>17, <2>2, <3>2 DEF GoesOn
  <2>3. CASE WriteAndGo(t, stored, stored > 0) /\ signedOut' = Lasts(t, stored, gone)
    BY <1>15, <1>17, <2>3 DEF GoesOn
  <2>q. QED  BY <1>17, <2>1, <2>2, <2>3 DEF GoesOn, RedirectToLogout
<1>18. ASSUME NEW t \in open, SignOut(t)  PROVE IInv'
  <2>1. CASE GoesOn(t, revoked)
    BY <1>0, <1>17, <2>1
  <2>2. CASE /\ revoking' = [revoking EXCEPT ![t] = stored]
             /\ UNCHANGED <<store, open, leader, timer, renewal, wire, closing,
                            crossed, signedOut>>
    BY <1>0, <1>14, <2>2 DEF store
  <2>q. QED  BY <1>18, <2>1, <2>2 DEF SignOut
<1>19. ASSUME NEW t \in open, SignOutRevoked(t)  PROVE IInv'
  <2>1. revoked \cup {revoking[t]} \subseteq Versions  BY <1>0
  <2>q. QED  BY <1>0, <1>17, <1>19, <2>1 DEF SignOutRevoked
<1>20. ASSUME NEW t \in open, SignOutFails(t)  PROVE IInv'
  <2>1. /\ revoking' \in [Tabs -> Versions] /\ closing' \subseteq open
        /\ revoked' \subseteq Versions /\ revoked \subseteq revoked'
    BY <1>0, <1>00, <1>20 DEF SignOutFails
  <2>q. QED  BY <1>14, <1>20, <2>1 DEF SignOutFails
<1>21. ASSUME NEW t \in open, SessionClosed(t)  PROVE IInv'
  <2>1. /\ WriteAndGo(t, 0, FALSE) /\ signedOut' = Lasts(t, 0, revoked)
        /\ UNCHANGED <<issued, old, revoked>>
    BY <1>21 DEF SessionClosed
  <2>2. (0 > 0) = FALSE  OBVIOUS
  <2>3. WriteAndGo(t, 0, 0 > 0)  BY <2>1, <2>2
  <2>q. QED  BY <1>0, <1>15, <2>1, <2>3
<1>22. ASSUME NEW t \in open, NoSession(t)  PROVE IInv'
  BY <1>13, <1>22 DEF NoSession
<1>16. CASE UNCHANGED vars
  BY <1>16 DEF vars, store, TypeOK, Traffic, OnlyToOpenTabs, LastIsStored, AllWatch,
               LeaderAttends, Expired, SignedOutStaysOut, NothingToRenew
<1>q. QED
  BY <1>1, <1>2, <1>3, <1>4, <1>5, <1>6, <1>8, <1>9, <1>10, <1>11, <1>13, <1>16,
     <1>18, <1>19, <1>20, <1>21, <1>22 DEF Next, InTab

\* The inductive invariant of the traffic between the tabs, for every set of tabs
\* and every number of versions.
THEOREM Invariant == SyncAssumption => (Spec => []IInv)
<1> SUFFICES ASSUME SyncAssumption  PROVE Spec => []IInv
  OBVIOUS
<1>1. Init => IInv  BY InitIInv
<1>2. IInv /\ [Next]_vars => IInv'  BY StepIInv
<1>q. QED  BY <1>1, <1>2, PTL DEF Spec

\* Every variable keeps its type.
THEOREM TypeCorrect == SyncAssumption => (Spec => []TypeOK)
<1>1. IInv => TypeOK  BY DEF IInv
<1>q. QED  BY <1>1, Invariant, PTL

\* Tabs that do not write at the same time come to agree: the last thing each hears
\* is what is stored, and each watches the stored token (SyncStorageService).
THEOREM Follow == SyncAssumption => (Spec => []TabsFollow)
<1>1. IInv => TabsFollow
  <2> SUFFICES ASSUME IInv, ~crossed, NEW t \in open
               PROVE  LET telling == {s \in Tabs : wire[s][t] # <<>>} IN
                      /\ \A s \in telling : wire[s][t][Len(wire[s][t])] = stored
                      /\ telling = {} => \/ timer[t] = stored
                                         \/ Expired
                                         \/ stored > 0 /\ renewal[t] # 0
    BY DEF TabsFollow
  <2>1. \A s \in Tabs : wire[s][t] # <<>> => wire[s][t][Len(wire[s][t])] = stored
    BY DEF IInv, Traffic, LastIsStored
  <2>2. (\A s \in Tabs : wire[s][t] = <<>>) => \/ timer[t] = stored
                                               \/ Expired
                                               \/ stored > 0 /\ renewal[t] # 0
    BY DEF IInv, Traffic, AllWatch
  <2>q. QED  BY <2>1, <2>2
<1>q. QED  BY <1>1, Invariant, PTL

\* After a signOut() that was to last, no tab has tokens again until a login, but
\* for those that go when it starts: one that had cleared the storage, or revoked
\* what it flagged, while no other tab was renewing (signOut of lib/oidc/mixin).
THEOREM StaysSignedOut == SyncAssumption => (Spec => []SignedOutStaysOut)
<1>1. IInv => SignedOutStaysOut  BY DEF IInv
<1>q. QED  BY <1>1, Invariant, PTL

\* The leading tab does not let the stored token expire unattended, whichever tabs
\* lead one after the other (AutoRenewService).
THEOREM Attends == SyncAssumption => (Spec => []LeaderAttends)
<1>1. IInv => LeaderAttends  BY DEF IInv, Traffic
<1>q. QED  BY <1>1, Invariant, PTL

================================================================================
