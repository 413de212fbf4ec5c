--------------------- MODULE CollectiveLaunchOrderProofs ---------------------
(***************************************************************************)
(* The launch order is one order, for every number of hosts, lanes and      *)
(* rails, as long as no request comes later than the reorder wait after one  *)
(* with a greater id (~Late): on each host the ids are launched in ascending *)
(* order.  The steps of the argument are the quorum, which finds every       *)
(* connection's first request registered, and the expected id, which is      *)
(* never above one that is still to come.                                    *)
(***************************************************************************)
EXTENDS CollectiveLaunchOrder, SequenceTheorems, FunctionTheorems,
        FiniteSetTheorems, TLAPS

(* A request that was taken was sent to the host on one of its connections. *)
Placed ==
  \A h \in Host, r \in Id :
    ticket[h][r] # "none" => r \in Reserved /\ sent[r].conn \in Conn

(* A connection has one request under way, the first that is not over.       *)
Alone ==
  \A h \in Host, r \in Id :
    ticket[h][r] \in {"waiting", "turn"} =>
      \A q \in 1..(r - 1) : sent[q].conn = sent[r].conn => Over(h, q)

Launches ==
  \A h \in Host, r \in Id :
    /\ r \in launched[h] => ticket[h][r] \notin {"none", "waiting"}
    /\ ticket[h][r] = "turn" => r \in launched[h]

(* What has been launched comes before all that is still to come.            *)
Ascending ==
  \A h \in Host : \A r \in launched[h], s \in Id : ToCome(h, s) => r < s

(* No id below the expected one is still to come.                            *)
Expecting ==
  \A h \in Host : expected[h] # None =>
    /\ expected[h] <= Len(sent) + 1
    /\ \A s \in Id : ToCome(h, s) => expected[h] <= s

OInv == TurnIsHeld /\ Placed /\ Alone /\ Launches /\ Ascending /\ Expecting

SentType == Seq([conn : 0..Width, of : 0..MaxIds])

(* The initial state satisfies the invariant.                                *)
LEMMA OrderInit == Init => OInv
<1> SUFFICES ASSUME Init PROVE OInv
  OBVIOUS
<1>1. sent \in SentType /\ Len(sent) = 0
  BY EmptySeq DEF Init, SentType
<1>2. TurnIsHeld
  BY <1>1, OrderAssumption
  DEF Init, TurnIsHeld, OrderTypeOK, OrderAssumption, SentType, Reserved, Id
<1>3. Placed /\ Alone /\ Launches /\ Ascending /\ Expecting
  BY DEF Init, Placed, Alone, Launches, Ascending, Expecting
<1> QED BY <1>2, <1>3 DEF OInv

(* Ids are added at the end of the sequence, and the hosts do nothing.        *)
LEMMA SentGrows ==
  ASSUME OInv, sent' \in SentType,
         Len(sent') \in Nat, Len(sent) <= Len(sent'), Len(sent') <= MaxIds,
         \A i \in Reserved : sent'[i] = sent[i],
         open' \subseteq 1..Len(sent'),
         UNCHANGED <<striped, ticket, launched, pending, expected, active, gap>>
  PROVE  OInv'
<1>1. Len(sent) \in Nat /\ Reserved = 1..Len(sent) /\ Reserved' = 1..Len(sent')
      /\ MaxIds \in Nat
  BY LenProperties, OrderAssumption
  DEF OInv, TurnIsHeld, OrderTypeOK, SentType, Reserved, OrderAssumption
<1>2. Reserved \subseteq Reserved'
  BY <1>1
<1>3. TurnIsHeld'
  BY <1>1 DEF OInv, TurnIsHeld, OrderTypeOK, SentType
<1>4. \A h \in Host, s \in Id :
        ToCome(h, s)' => ToCome(h, s) \/ s > Len(sent)
  BY <1>1 DEF ToCome, Coming, Id
<1>5. Placed'
  BY <1>2 DEF OInv, Placed
<1>6. Alone'
  <2> SUFFICES ASSUME NEW h \in Host, NEW r \in Id, ticket[h][r] \in {"waiting", "turn"},
                      NEW q \in 1..(r - 1), sent'[q].conn = sent'[r].conn
               PROVE  Over(h, q)'
    BY DEF Alone
  <2>1. r \in Reserved /\ q \in Reserved
    BY <1>1 DEF OInv, Placed, Id
  <2>2. sent[q].conn = sent[r].conn
    BY <2>1
  <2> QED BY <2>2 DEF OInv, Alone, Over
<1>7. Launches'
  BY DEF OInv, Launches
<1>8. Ascending'
  <2> SUFFICES ASSUME NEW h \in Host, NEW r \in launched[h], NEW s \in Id, ToCome(h, s)'
               PROVE  r < s
    BY DEF Ascending
  <2>1. r \in Id /\ r \in Reserved
    BY DEF OInv, TurnIsHeld, OrderTypeOK, Launches, Placed
  <2>2. CASE ToCome(h, s)
    BY <2>2 DEF OInv, Ascending
  <2>3. CASE s > Len(sent)
    BY <1>1, <2>1, <2>3 DEF Id
  <2> QED BY <1>4, <2>2, <2>3
<1>9. Expecting'
  <2> SUFFICES ASSUME NEW h \in Host, expected[h] # None
               PROVE  /\ expected[h] <= Len(sent') + 1
                      /\ \A s \in Id : ToCome(h, s)' => expected[h] <= s
    BY DEF Expecting
  <2>1. expected[h] \in Nat /\ expected[h] <= Len(sent) + 1
    BY <1>1 DEF OInv, TurnIsHeld, OrderTypeOK, Expecting
  <2>2. ASSUME NEW s \in Id, ToCome(h, s)' PROVE expected[h] <= s
    <3>1. CASE ToCome(h, s)
      BY <3>1 DEF OInv, Expecting
    <3>2. CASE s > Len(sent)
      BY <1>1, <2>1, <3>2 DEF Id
    <3> QED BY <1>4, <2>2, <3>1, <3>2
  <2> QED BY <1>1, <2>1, <2>2
<1> QED BY <1>3, <1>5, <1>6, <1>7, <1>8, <1>9 DEF OInv

(* Sending the requests of a dispatch.                                        *)
LEMMA SendStep ==
  ASSUME OInv, NEW conns \in Seq(Conn), Len(conns) > 0, Send(conns)
  PROVE  OInv'
<1> DEFINE new == [i \in 1..Len(conns) |-> [conn |-> conns[i], of |-> Len(sent) + 1]]
<1>1. Len(sent) \in Nat /\ Len(conns) \in Nat /\ MaxIds \in Nat /\ Width \in Nat
      /\ sent \in SentType /\ Len(sent) + Len(conns) <= MaxIds
  BY LenProperties, OrderAssumption
  DEF OInv, TurnIsHeld, OrderTypeOK, SentType, OrderAssumption, Send
<1>2. new \in SentType /\ Len(new) = Len(conns)
  <2>1. \A i \in 1..Len(conns) : conns[i] \in 0..Width
    BY <1>1, ElementOfSeq DEF Conn
  <2>2. Len(sent) + 1 \in 0..MaxIds
    BY <1>1
  <2>3. new \in [1..Len(conns) -> [conn : 0..Width, of : 0..MaxIds]]
    BY <2>1, <2>2
  <2> QED BY <1>1, <2>3, IsASeq, LenProperties DEF SentType
<1>3. sent' = sent \o new
  BY DEF Send
<1> HIDE DEF new
<1>4. sent' \in SentType /\ Len(sent') = Len(sent) + Len(conns)
      /\ \A i \in Reserved : sent'[i] = sent[i]
  <2>1. /\ sent \o new \in SentType
        /\ Len(sent \o new) = Len(sent) + Len(new)
        /\ \A i \in 1..(Len(sent) + Len(new)) :
             (sent \o new)[i] = IF i <= Len(sent) THEN sent[i] ELSE new[i - Len(sent)]
    BY <1>1, <1>2, ConcatProperties DEF SentType
  <2>2. \A i \in 1..Len(sent) : i \in 1..(Len(sent) + Len(new)) /\ i <= Len(sent)
    BY <1>1, <1>2
  <2> QED BY <1>2, <1>3, <2>1, <2>2 DEF Reserved
<1>5. open' \subseteq 1..Len(sent')
  <2>1. open' = open \cup {Len(sent) + 1} /\ open \subseteq 1..Len(sent)
    BY DEF Send, OInv, TurnIsHeld, OrderTypeOK, Reserved
  <2>2. Len(sent') \in Nat /\ Len(sent) + 1 <= Len(sent')
    BY <1>1, <1>4
  <2>3. \A i \in 1..Len(sent) : i \in 1..Len(sent')
    BY <1>1, <2>2
  <2>4. Len(sent) + 1 \in 1..Len(sent')
    BY <1>1, <2>2
  <2> QED BY <2>1, <2>3, <2>4
<1>6. Len(sent') \in Nat /\ Len(sent) <= Len(sent') /\ Len(sent') <= MaxIds
  BY <1>1, <1>4
<1>7. UNCHANGED <<striped, ticket, launched, pending, expected, active, gap>>
  BY DEF Send
<1> QED BY <1>4, <1>5, <1>6, <1>7, SentGrows

LEMMA SendRegularStep ==
  ASSUME OInv, NEW c \in Conn, SendRegular(c)
  PROVE  OInv'
<1>1. <<c>> \in Seq(Conn) /\ Len(<<c>>) > 0
  OBVIOUS
<1> QED BY <1>1, SendStep DEF SendRegular

LEMMA SendStripedStep == ASSUME OInv, SendStriped PROVE OInv'
<1>1. Width \in Nat /\ Width > 0
  BY OrderAssumption DEF OrderAssumption
<1>2. [i \in Conn |-> i] \in Seq(Conn) /\ Len([i \in Conn |-> i]) = Width
  <2>1. [i \in Conn |-> i] \in [1..Width -> Conn]
    BY DEF Conn
  <2> QED BY <1>1, <2>1, IsASeq, LenProperties
<1> QED BY <1>1, <1>2, SendStep DEF SendStriped

LEMMA SkipStep == ASSUME OInv, Skip PROVE OInv'
<1>1. Len(sent) \in Nat /\ MaxIds \in Nat /\ Width \in Nat /\ sent \in SentType
  BY LenProperties, OrderAssumption
  DEF OInv, TurnIsHeld, OrderTypeOK, SentType, OrderAssumption
<1>2. [conn |-> 0, of |-> 0] \in [conn : 0..Width, of : 0..MaxIds]
  BY <1>1
<1>3. sent' \in SentType /\ Len(sent') = Len(sent) + 1
      /\ \A i \in Reserved : sent'[i] = sent[i]
  BY <1>1, <1>2, AppendProperties DEF Skip, SentType, Reserved
<1>4. open' \subseteq 1..Len(sent')
  BY <1>1, <1>3 DEF Skip, OInv, TurnIsHeld, OrderTypeOK, Reserved
<1>5. Len(sent') \in Nat /\ Len(sent) <= Len(sent') /\ Len(sent') <= MaxIds
  BY <1>1, <1>3 DEF Skip
<1>6. UNCHANGED <<striped, ticket, launched, pending, expected, active, gap>>
  BY DEF Skip
<1> QED BY <1>3, <1>4, <1>5, <1>6, SentGrows

LEMMA ReturnStep == ASSUME OInv, NEW f \in open, Return(f) PROVE OInv'
<1>1. Len(sent) \in Nat /\ sent \in SentType /\ Len(sent) <= MaxIds
      /\ MaxIds \in Nat
  BY LenProperties, OrderAssumption
  DEF OInv, TurnIsHeld, OrderTypeOK, SentType, OrderAssumption
<1>2. open' \subseteq 1..Len(sent')
  BY DEF Return, OInv, TurnIsHeld, OrderTypeOK, Reserved
<1> QED BY <1>1, <1>2, SentGrows DEF Return

-----------------------------------------------------------------------------
(* Steps of a host *)

(* The type of every variable, in the form the steps need.                    *)
LEMMA OrderTypes ==
  ASSUME OInv
  PROVE  /\ MaxIds \in Nat /\ Len(sent) \in Nat /\ Len(sent) <= MaxIds
         /\ Reserved = 1..Len(sent) /\ Id = 1..MaxIds /\ None \notin Nat
         /\ ticket \in [Host -> [Id -> {"none", "waiting", "turn", "finished", "dropped"}]]
         /\ launched \in [Host -> SUBSET Id] /\ pending \in [Host -> SUBSET Id]
         /\ expected \in [Host -> 1..(MaxIds + 1) \cup {None}]
         /\ active \in [Host -> Id \cup {None}]
         /\ gap \in [Host -> BOOLEAN]
BY LenProperties, OrderAssumption
DEF OInv, TurnIsHeld, OrderTypeOK, OrderAssumption, Reserved, Id

(* A ticket moves on, which settles what is left of Placed and Alone: a       *)
(* request that begins has all of its connection's before it over.           *)
LEMMA TicketMoves ==
  ASSUME OInv, NEW h \in Host, NEW r \in Id, NEW state,
         state \in {"waiting", "turn", "finished", "dropped"},
         SetTicket(h, r, state), UNCHANGED coordinatorVars,
         r \in Reserved, sent[r].conn \in Conn,
         ~Over(h, r),
         state \in {"waiting", "turn"} =>
           \A q \in 1..(r - 1) : sent[q].conn = sent[r].conn => Over(h, q)
  PROVE  /\ Placed' /\ Alone'
         /\ ticket' \in [Host -> [Id -> {"none", "waiting", "turn", "finished", "dropped"}]]
         /\ \A g \in Host, s \in Id :
              ticket'[g][s] = IF g = h /\ s = r THEN state ELSE ticket[g][s]
         /\ \A g \in Host, s \in Id : Over(g, s) => Over(g, s)'
         /\ \A g \in Host, s \in Id :
              g # h \/ s # r \/ state # "waiting" => (ToCome(g, s)' => ToCome(g, s))
         /\ state # "waiting" => ~ToCome(h, r)'
<1>1. /\ ticket' \in [Host -> [Id -> {"none", "waiting", "turn", "finished", "dropped"}]]
      /\ \A g \in Host, s \in Id :
           ticket'[g][s] = IF g = h /\ s = r THEN state ELSE ticket[g][s]
  BY OrderTypes DEF SetTicket
<1>2. \A g \in Host, s \in Id : Over(g, s) => Over(g, s)'
  BY <1>1 DEF Over
<1>3. Reserved' = Reserved /\ sent' = sent
  BY DEF coordinatorVars, Reserved
<1>4. \A g \in Host, s \in Id :
        g # h \/ s # r \/ state # "waiting" => (ToCome(g, s)' => ToCome(g, s))
  BY <1>1, <1>3 DEF ToCome, Coming
<1>5. state # "waiting" => ~ToCome(h, r)'
  BY <1>1 DEF ToCome, Coming
<1>6. Placed'
  BY <1>1, <1>3 DEF Placed, OInv
<1>7. Alone'
  <2> SUFFICES ASSUME NEW g \in Host, NEW s \in Id, ticket'[g][s] \in {"waiting", "turn"},
                      NEW q \in 1..(s - 1), sent[q].conn = sent[s].conn
               PROVE  Over(g, q)'
    BY <1>3 DEF Alone
  <2>1. q \in Id
    BY OrderTypes
  <2>2. Over(g, q)
    <3>1. CASE g = h /\ s = r
      BY <3>1, <1>1
    <3>2. CASE ~(g = h /\ s = r)
      BY <3>2, <1>1 DEF OInv, Alone
    <3> QED BY <3>1, <3>2
  <2> QED BY <1>2, <2>1, <2>2
<1> QED BY <1>1, <1>2, <1>4, <1>5, <1>6, <1>7

(* A request is taken from its connection.                                    *)
LEMMA RegisterStep ==
  ASSUME OInv, NEW h \in Host, NEW r \in Id, Register(h, r)
  PROVE  OInv'
<1>1. /\ ticket[h][r] = "none" /\ r \in Reserved /\ sent[r].conn \in Conn
      /\ SetTicket(h, r, "waiting") /\ UNCHANGED coordinatorVars
      /\ ToCome(h, r)
  BY DEF Register, Coming, ToCome
<1>2. /\ Placed' /\ Alone'
      /\ ticket' \in [Host -> [Id -> {"none", "waiting", "turn", "finished", "dropped"}]]
      /\ \A g \in Host, s \in Id :
           ticket'[g][s] = IF g = h /\ s = r THEN "waiting" ELSE ticket[g][s]
      /\ \A g \in Host, s \in Id : g # h \/ s # r => (ToCome(g, s)' => ToCome(g, s))
  <2>1. ~Over(h, r)
    BY <1>1 DEF Over
  <2>2. \A q \in 1..(r - 1) : sent[q].conn = sent[r].conn => Over(h, q)
    BY DEF Register
  <2> QED BY <1>1, <2>1, <2>2, TicketMoves
<1>3. \A g \in Host, s \in Id : ToCome(g, s)' => ToCome(g, s)
  BY <1>1, <1>2
<1>4. /\ pending' = [pending EXCEPT ![h] = @ \cup {r}]
      /\ UNCHANGED <<striped, sent, open, launched, expected, active, gap>>
  BY DEF Register, coordinatorVars
<1>5. TurnIsHeld'
  <2>1. OrderTypeOK'
    BY <1>2, <1>4, OrderTypes DEF OInv, TurnIsHeld, OrderTypeOK, Reserved
  <2>2. ASSUME NEW g \in Host
        PROVE  /\ pending'[g] = {s \in Id : ticket'[g][s] \in {"waiting", "turn"}}
               /\ \A s \in Id : ticket'[g][s] = "turn" <=> active'[g] = s
    <3>1. /\ pending[g] = {s \in Id : ticket[g][s] \in {"waiting", "turn"}}
          /\ \A s \in Id : ticket[g][s] = "turn" <=> active[g] = s
      BY DEF OInv, TurnIsHeld
    <3>2. pending'[g] = IF g = h THEN pending[g] \cup {r} ELSE pending[g]
      BY <1>4, OrderTypes
    <3> QED BY <1>1, <1>2, <1>4, <3>1, <3>2
  <2> QED BY <2>1, <2>2 DEF TurnIsHeld
<1>6. Launches'
  BY <1>1, <1>2, <1>4 DEF OInv, Launches
<1>7. Ascending'
  BY <1>3, <1>4, OrderTypes DEF OInv, Ascending
<1>8. Expecting'
  BY <1>3, <1>4 DEF OInv, Expecting
<1> QED BY <1>2, <1>5, <1>6, <1>7, <1>8 DEF OInv

(* A request is lost on the way.                                              *)
LEMMA LoseStep ==
  ASSUME OInv, NEW h \in Host, NEW r \in Id, Lose(h, r)
  PROVE  OInv'
<1>1. /\ ticket[h][r] = "none" /\ r \in Reserved /\ sent[r].conn \in Conn
      /\ SetTicket(h, r, "dropped") /\ UNCHANGED coordinatorVars
  BY DEF Lose, Coming
<1>2. /\ Placed' /\ Alone'
      /\ ticket' \in [Host -> [Id -> {"none", "waiting", "turn", "finished", "dropped"}]]
      /\ \A g \in Host, s \in Id :
           ticket'[g][s] = IF g = h /\ s = r THEN "dropped" ELSE ticket[g][s]
      /\ \A g \in Host, s \in Id : ToCome(g, s)' => ToCome(g, s)
  <2>1. ~Over(h, r)
    BY <1>1 DEF Over
  <2> QED BY <1>1, <2>1, TicketMoves
<1>3. UNCHANGED <<striped, sent, open, launched, pending, expected, active, gap>>
  BY DEF Lose, coordinatorVars
<1>4. TurnIsHeld'
  <2>1. OrderTypeOK'
    BY <1>2, <1>3, OrderTypes DEF OInv, TurnIsHeld, OrderTypeOK, Reserved
  <2> QED BY <1>1, <1>2, <1>3, <2>1 DEF OInv, TurnIsHeld
<1>5. Launches'
  BY <1>1, <1>2, <1>3 DEF OInv, Launches
<1>6. Ascending' /\ Expecting'
  BY <1>2, <1>3, OrderTypes DEF OInv, Ascending, Expecting
<1> QED BY <1>2, <1>4, <1>5, <1>6 DEF OInv

(* With a quorum every connection has a request registered, so whatever is    *)
(* on its way stands behind one that is registered.                          *)
LEMMA QuorumFindsAll ==
  ASSUME OInv, NEW h \in Host, Cardinality(pending[h]) >= Width,
         NEW s \in Id, Coming(h, s)
  PROVE  \E p \in pending[h] : p < s
<1> DEFINE P == pending[h]
           conn == [p \in P |-> sent[p].conn]
<1>1. /\ P = {p \in Id : ticket[h][p] \in {"waiting", "turn"}}
      /\ Id \subseteq Nat /\ Width \in Nat
  BY OrderTypes, OrderAssumption DEF OInv, TurnIsHeld, OrderAssumption
<1>2. \A p \in P : p \in Reserved /\ sent[p].conn \in Conn
  BY <1>1 DEF OInv, Placed
<1>3. IsFiniteSet(Conn) /\ Cardinality(Conn) = Width
  BY <1>1, FS_Interval, OrderAssumption DEF Conn, OrderAssumption
<1>4. conn \in [P -> Conn]
  BY <1>2
<1>5. ASSUME NEW p \in P, NEW q \in P, p < q PROVE sent[p].conn # sent[q].conn
  <2>1. p \in 1..(q - 1)
    BY <1>1, <1>5, OrderTypes
  <2>2. ~Over(h, p)
    BY <1>1 DEF Over
  <2> QED BY <1>1, <2>1, <2>2 DEF OInv, Alone
<1>6. conn \in Injection(P, Conn)
  <2>1. \A p, q \in P : conn[p] = conn[q] => p = q
    <3> SUFFICES ASSUME NEW p \in P, NEW q \in P, p # q PROVE conn[p] # conn[q]
      OBVIOUS
    <3>1. p \in Nat /\ q \in Nat
      BY <1>1
    <3>2. p < q \/ q < p
      BY <3>1
    <3> QED BY <1>5, <3>2
  <2> QED BY <1>4, <2>1, Fun_IsInj
<1>7. conn \in Surjection(P, Conn)
  <2>1. IsFiniteSet(P) /\ Cardinality(P) <= Cardinality(Conn)
        /\ (Cardinality(P) = Cardinality(Conn) <=> conn \in Surjection(P, Conn))
    BY <1>3, <1>6, FS_Injection
  <2>2. Cardinality(P) \in Nat
    BY <2>1, FS_CardinalityType
  <2> QED BY <1>1, <1>3, <2>1, <2>2
<1>8. sent[s].conn \in Conn /\ ticket[h][s] = "none"
  BY DEF Coming
<1>9. PICK p \in P : sent[p].conn = sent[s].conn
  BY <1>7, <1>8, Fun_SurjectionProperties DEF Surjection
<1>10. p # s
  BY <1>1, <1>8
<1>11. ~(s < p)
  <2> SUFFICES ASSUME s < p PROVE FALSE
    OBVIOUS
  <2>1. s \in 1..(p - 1)
    BY <1>1, OrderTypes
  <2>2. Over(h, s)
    BY <1>1, <1>9, <2>1 DEF OInv, Alone
  <2> QED BY <1>8, <2>2 DEF Over
<1>12. p \in Nat /\ s \in Nat
  BY <1>1
<1>13. p < s
  BY <1>10, <1>11, <1>12
<1> QED BY <1>13

(* An id that may be given the turn is not above any that is to come.         *)
LEMMA NextIsFirst ==
  ASSUME OInv, ~Late, NEW h \in Host, active[h] = None,
         NEW e \in NextExpected(h), e # None
  PROVE  /\ e \in 1..(Len(sent) + 1)
         /\ \A s \in Id : ToCome(h, s) => e <= s
<1>1. /\ pending[h] = {p \in Id : ticket[h][p] \in {"waiting", "turn"}}
      /\ pending[h] \subseteq Reserved
  BY DEF OInv, TurnIsHeld, Placed
<1>2. CASE e = expected[h]
  BY <1>2, OrderTypes DEF OInv, Expecting
<1>3. CASE e # expected[h]
  <2>1. /\ e \in pending[h] /\ \A r \in pending[h] : e <= r
        /\ Cardinality(pending[h]) >= Width \/ GapOver(h, e)
    BY <1>3 DEF NextExpected
  <2>2. ASSUME NEW s \in Id, ToCome(h, s) PROVE e <= s
    <3>1. CASE ticket[h][s] = "waiting"
      BY <1>1, <2>1, <3>1
    <3>2. CASE Coming(h, s) /\ GapOver(h, e)
      <4>1. s \notin 1..(e - 1)
        BY <3>2 DEF GapOver
      <4> QED BY <1>1, <2>1, <4>1, OrderTypes
    <3>3. CASE Coming(h, s) /\ Cardinality(pending[h]) >= Width
      <4>1. PICK p \in pending[h] : p < s
        BY <3>3, QuorumFindsAll
      <4> QED BY <1>1, <2>1, <4>1, OrderTypes
    <3> QED BY <2>1, <2>2, <3>1, <3>2, <3>3 DEF ToCome
  <2> QED BY <1>1, <2>1, <2>2, OrderTypes
<1> QED BY <1>2, <1>3

(* A waiter settles what is next, and may take the turn.                      *)
LEMMA PollStep ==
  ASSUME OInv, ~Late, NEW h \in Host, NEW r \in Id, Poll(h, r)
  PROVE  OInv'
<1>1. PICK e \in NextExpected(h) :
        /\ expected' = [expected EXCEPT ![h] = e]
        /\ gap' = [gap EXCEPT ![h] = e \notin pending[h]]
        /\ IF e = r
           THEN /\ active' = [active EXCEPT ![h] = r]
                /\ launched' = [launched EXCEPT ![h] = @ \cup {r}]
                /\ SetTicket(h, r, "turn")
           ELSE UNCHANGED <<active, launched, ticket>>
  BY DEF Poll
<1>2. /\ ticket[h][r] = "waiting" /\ active[h] = None
      /\ UNCHANGED <<striped, sent, open, pending>> /\ UNCHANGED coordinatorVars
  BY DEF Poll, coordinatorVars
<1>3. e # None =>
        /\ e \in 1..(Len(sent) + 1)
        /\ \A s \in Id : ToCome(h, s) => e <= s
  BY <1>2, NextIsFirst
<1>4. expected' \in [Host -> 1..(MaxIds + 1) \cup {None}] /\ gap' \in [Host -> BOOLEAN]
  BY <1>1, <1>3, OrderTypes
<1>5. CASE e = r
  <2>1. /\ active' = [active EXCEPT ![h] = r]
        /\ launched' = [launched EXCEPT ![h] = @ \cup {r}]
        /\ SetTicket(h, r, "turn")
    BY <1>1, <1>5
  <2>2. /\ Placed' /\ Alone'
        /\ ticket' \in [Host -> [Id -> {"none", "waiting", "turn", "finished", "dropped"}]]
        /\ \A g \in Host, s \in Id :
             ticket'[g][s] = IF g = h /\ s = r THEN "turn" ELSE ticket[g][s]
        /\ \A g \in Host, s \in Id : ToCome(g, s)' => ToCome(g, s)
        /\ ~ToCome(h, r)'
    <3>1. r \in Reserved /\ sent[r].conn \in Conn /\ ~Over(h, r)
      BY <1>2 DEF OInv, Placed, Over
    <3>2. \A q \in 1..(r - 1) : sent[q].conn = sent[r].conn => Over(h, q)
      BY <1>2 DEF OInv, Alone
    <3> QED BY <1>2, <2>1, <3>1, <3>2, TicketMoves
  <2>3. TurnIsHeld'
    <3>1. OrderTypeOK'
      <4>1. active' \in [Host -> Id \cup {None}] /\ launched' \in [Host -> SUBSET Id]
        BY <2>1, OrderTypes
      <4> QED BY <1>2, <1>4, <2>2, <4>1 DEF OInv, TurnIsHeld, OrderTypeOK, Reserved
    <3>2. ASSUME NEW g \in Host
          PROVE  /\ pending'[g] = {s \in Id : ticket'[g][s] \in {"waiting", "turn"}}
                 /\ \A s \in Id : ticket'[g][s] = "turn" <=> active'[g] = s
      <4>1. /\ pending[g] = {s \in Id : ticket[g][s] \in {"waiting", "turn"}}
            /\ \A s \in Id : ticket[g][s] = "turn" <=> active[g] = s
        BY DEF OInv, TurnIsHeld
      <4>2. active'[g] = IF g = h THEN r ELSE active[g]
        BY <2>1, OrderTypes
      <4>3. \A s \in Id : s # None
        BY OrderTypes
      <4> QED BY <1>2, <2>2, <4>1, <4>2, <4>3
    <3> QED BY <3>1, <3>2 DEF TurnIsHeld
  <2>4. \A g \in Host : launched'[g] = IF g = h THEN launched[g] \cup {r} ELSE launched[g]
    BY <2>1, OrderTypes
  <2>5. Launches'
    <3> SUFFICES ASSUME NEW g \in Host, NEW s \in Id
                 PROVE  /\ s \in launched'[g] => ticket'[g][s] \notin {"none", "waiting"}
                        /\ ticket'[g][s] = "turn" => s \in launched'[g]
      BY DEF Launches
    <3>1. /\ s \in launched[g] => ticket[g][s] \notin {"none", "waiting"}
          /\ ticket[g][s] = "turn" => s \in launched[g]
      BY DEF OInv, Launches
    <3>2. ticket'[g][s] = IF g = h /\ s = r THEN "turn" ELSE ticket[g][s]
      BY <2>2
    <3>3. launched'[g] = IF g = h THEN launched[g] \cup {r} ELSE launched[g]
      BY <2>4
    <3> QED BY <3>1, <3>2, <3>3
  <2>6. Ascending'
    <3> SUFFICES ASSUME NEW g \in Host, NEW q \in launched'[g], NEW s \in Id, ToCome(g, s)'
                 PROVE  q < s
      BY DEF Ascending
    <3>1. CASE q \in launched[g]
      BY <2>2, <3>1 DEF OInv, Ascending
    <3>2. CASE q \notin launched[g]
      <4>1. g = h /\ q = r
        BY <2>4, <3>2
      <4>2. r <= s /\ r # s
        BY <1>3, <1>5, <2>2, <4>1, OrderTypes
      <4> QED BY <4>1, <4>2, OrderTypes
    <3> QED BY <3>1, <3>2
  <2>7. Expecting'
    <3> SUFFICES ASSUME NEW g \in Host, expected'[g] # None
                 PROVE  /\ expected'[g] <= Len(sent) + 1
                        /\ \A s \in Id : ToCome(g, s)' => expected'[g] <= s
      BY <1>2 DEF Expecting
    <3>1. expected'[g] = IF g = h THEN e ELSE expected[g]
      BY <1>1, OrderTypes
    <3>2. CASE g = h
      BY <1>3, <2>2, <3>1, <3>2, OrderTypes
    <3>3. CASE g # h
      BY <2>2, <3>1, <3>3 DEF OInv, Expecting
    <3> QED BY <3>2, <3>3
  <2> QED BY <2>2, <2>3, <2>5, <2>6, <2>7 DEF OInv
<1>6. CASE e # r
  <2>1. UNCHANGED <<active, launched, ticket, sent, pending, open, striped>>
    BY <1>1, <1>2, <1>6
  <2>2. \A g \in Host, s \in Id : ToCome(g, s)' <=> ToCome(g, s)
    BY <2>1 DEF ToCome, Coming, Reserved
  <2>3. TurnIsHeld'
    BY <1>4, <2>1 DEF OInv, TurnIsHeld, OrderTypeOK, Reserved
  <2>4. Placed' /\ Alone' /\ Launches' /\ Ascending'
    BY <2>1, <2>2 DEF OInv, Placed, Alone, Launches, Ascending, Over, Reserved
  <2>5. Expecting'
    <3> SUFFICES ASSUME NEW g \in Host, expected'[g] # None
                 PROVE  /\ expected'[g] <= Len(sent) + 1
                        /\ \A s \in Id : ToCome(g, s)' => expected'[g] <= s
      BY <2>1 DEF Expecting
    <3>1. expected'[g] = IF g = h THEN e ELSE expected[g]
      BY <1>1, OrderTypes
    <3>2. CASE g = h
      BY <1>3, <2>2, <3>1, <3>2, OrderTypes
    <3>3. CASE g # h
      BY <2>2, <3>1, <3>3 DEF OInv, Expecting
    <3> QED BY <3>2, <3>3
  <2> QED BY <2>3, <2>4, <2>5 DEF OInv
<1> QED BY <1>5, <1>6

(* The turn ends: nothing below the next id of the sequence is to come.       *)
LEMMA FinishStep ==
  ASSUME OInv, NEW h \in Host, NEW r \in Id, Finish(h, r)
  PROVE  OInv'
<1>1. /\ ticket[h][r] = "turn" /\ active[h] = r /\ r \in launched[h]
      /\ r \in Reserved /\ sent[r].conn \in Conn
      /\ SetTicket(h, r, "finished") /\ UNCHANGED coordinatorVars
  BY DEF Finish, OInv, TurnIsHeld, Launches, Placed
<1>2. /\ Placed' /\ Alone'
      /\ ticket' \in [Host -> [Id -> {"none", "waiting", "turn", "finished", "dropped"}]]
      /\ \A g \in Host, s \in Id :
           ticket'[g][s] = IF g = h /\ s = r THEN "finished" ELSE ticket[g][s]
      /\ \A g \in Host, s \in Id : ToCome(g, s)' => ToCome(g, s)
  <2>1. ~Over(h, r)
    BY <1>1 DEF Over
  <2> QED BY <1>1, <2>1, TicketMoves
<1>3. /\ \A g \in Host : active'[g] = IF g = h THEN None ELSE active[g]
      /\ \A g \in Host : expected'[g] = IF g = h THEN r + 1 ELSE expected[g]
      /\ \A g \in Host : pending'[g] = IF g = h THEN pending[g] \ {r} ELSE pending[g]
      /\ UNCHANGED <<striped, sent, open, launched>>
  BY OrderTypes DEF Finish, coordinatorVars
<1>4. TurnIsHeld'
  <2>1. OrderTypeOK'
    <3>1. /\ active' \in [Host -> Id \cup {None}]
          /\ pending' \in [Host -> SUBSET Id] /\ gap' \in [Host -> BOOLEAN]
      BY OrderTypes DEF Finish
    <3>2. expected' \in [Host -> 1..(MaxIds + 1) \cup {None}]
      <4>1. r + 1 \in 1..(MaxIds + 1)
        BY OrderTypes
      <4> QED BY <4>1, OrderTypes DEF Finish
    <3> QED BY <1>2, <1>3, <3>1, <3>2 DEF OInv, TurnIsHeld, OrderTypeOK, Reserved
  <2>2. ASSUME NEW g \in Host
        PROVE  /\ pending'[g] = {s \in Id : ticket'[g][s] \in {"waiting", "turn"}}
               /\ \A s \in Id : ticket'[g][s] = "turn" <=> active'[g] = s
    <3>1. /\ pending[g] = {s \in Id : ticket[g][s] \in {"waiting", "turn"}}
          /\ \A s \in Id : ticket[g][s] = "turn" <=> active[g] = s
      BY DEF OInv, TurnIsHeld
    <3>2. \A s \in Id : s # None
      BY OrderTypes
    <3>3. \A s \in Id : ticket'[g][s] =
            IF g = h /\ s = r THEN "finished" ELSE ticket[g][s]
      BY <1>2
    <3>4. CASE g = h
      <4>1. pending'[g] = pending[g] \ {r}
        BY <1>3, <3>4
      <4>2. pending'[g] = {s \in Id : ticket'[g][s] \in {"waiting", "turn"}}
        BY <3>1, <3>3, <3>4, <4>1
      <4>3. \A s \in Id : ticket'[g][s] = "turn" <=> active'[g] = s
        BY <1>1, <1>3, <3>1, <3>2, <3>3, <3>4
      <4> QED BY <4>2, <4>3
    <3>5. CASE g # h
      BY <1>3, <3>1, <3>3, <3>5
    <3> QED BY <3>4, <3>5
  <2> QED BY <2>1, <2>2 DEF TurnIsHeld
<1>5. Launches'
  BY <1>2, <1>3 DEF OInv, Launches
<1>6. Ascending'
  BY <1>2, <1>3, OrderTypes DEF OInv, Ascending
<1>7. Expecting'
  <2> SUFFICES ASSUME NEW g \in Host, expected'[g] # None
               PROVE  /\ expected'[g] <= Len(sent) + 1
                      /\ \A s \in Id : ToCome(g, s)' => expected'[g] <= s
    BY <1>3 DEF Expecting
  <2>1. CASE g = h
    <3>1. r <= Len(sent)
      BY <1>1, OrderTypes
    <3>2. \A s \in Id : ToCome(h, s) => r < s
      BY <1>1 DEF OInv, Ascending
    <3> QED BY <1>2, <1>3, <2>1, <3>1, <3>2, OrderTypes
  <2>2. CASE g # h
    BY <1>2, <1>3, <2>2 DEF OInv, Expecting
  <2> QED BY <2>1, <2>2
<1> QED BY <1>2, <1>4, <1>5, <1>6, <1>7 DEF OInv

(* A ticket is dropped, and only a turn of its own ends with it.              *)
LEMMA DropStep ==
  ASSUME OInv, NEW h \in Host, NEW r \in Id, Drop(h, r)
  PROVE  OInv'
<1>1. /\ ticket[h][r] \in {"waiting", "turn"}
      /\ r \in Reserved /\ sent[r].conn \in Conn
      /\ SetTicket(h, r, "dropped") /\ UNCHANGED coordinatorVars
  BY DEF Drop, OInv, Placed
<1>2. /\ Placed' /\ Alone'
      /\ ticket' \in [Host -> [Id -> {"none", "waiting", "turn", "finished", "dropped"}]]
      /\ \A g \in Host, s \in Id :
           ticket'[g][s] = IF g = h /\ s = r THEN "dropped" ELSE ticket[g][s]
      /\ \A g \in Host, s \in Id : ToCome(g, s)' => ToCome(g, s)
  <2>1. ~Over(h, r)
    BY <1>1 DEF Over
  <2> QED BY <1>1, <2>1, TicketMoves
<1>3. /\ \A g \in Host :
           active'[g] = IF g = h /\ active[g] = r THEN None ELSE active[g]
      /\ \A g \in Host :
           expected'[g] = IF g = h /\ expected[g] = r THEN None ELSE expected[g]
      /\ \A g \in Host : pending'[g] = IF g = h THEN pending[g] \ {r} ELSE pending[g]
      /\ UNCHANGED <<striped, sent, open, launched>>
  BY OrderTypes DEF Drop, coordinatorVars
<1>4. TurnIsHeld'
  <2>1. OrderTypeOK'
    <3>1. /\ active' \in [Host -> Id \cup {None}]
          /\ pending' \in [Host -> SUBSET Id] /\ gap' \in [Host -> BOOLEAN]
          /\ expected' \in [Host -> 1..(MaxIds + 1) \cup {None}]
      BY OrderTypes DEF Drop
    <3> QED BY <1>2, <1>3, <3>1 DEF OInv, TurnIsHeld, OrderTypeOK, Reserved
  <2>2. ASSUME NEW g \in Host
        PROVE  /\ pending'[g] = {s \in Id : ticket'[g][s] \in {"waiting", "turn"}}
               /\ \A s \in Id : ticket'[g][s] = "turn" <=> active'[g] = s
    <3>1. /\ pending[g] = {s \in Id : ticket[g][s] \in {"waiting", "turn"}}
          /\ \A s \in Id : ticket[g][s] = "turn" <=> active[g] = s
      BY DEF OInv, TurnIsHeld
    <3>2. \A s \in Id : s # None
      BY OrderTypes
    <3>3. \A s \in Id : ticket'[g][s] =
            IF g = h /\ s = r THEN "dropped" ELSE ticket[g][s]
      BY <1>2
    <3>4. CASE g = h
      <4>1. pending'[g] = pending[g] \ {r}
        BY <1>3, <3>4
      <4>2. pending'[g] = {s \in Id : ticket'[g][s] \in {"waiting", "turn"}}
        BY <3>1, <3>3, <3>4, <4>1
      <4>3. \A s \in Id : ticket'[g][s] = "turn" <=> active'[g] = s
        BY <1>1, <1>3, <3>1, <3>2, <3>3, <3>4
      <4> QED BY <4>2, <4>3
    <3>5. CASE g # h
      BY <1>3, <3>1, <3>3, <3>5
    <3> QED BY <3>4, <3>5
  <2> QED BY <2>1, <2>2 DEF TurnIsHeld
<1>5. Launches'
  BY <1>2, <1>3 DEF OInv, Launches
<1>6. Ascending'
  BY <1>2, <1>3, OrderTypes DEF OInv, Ascending
<1>7. Expecting'
  BY <1>2, <1>3 DEF OInv, Expecting
<1> QED BY <1>2, <1>4, <1>5, <1>6, <1>7 DEF OInv

-----------------------------------------------------------------------------
(* The theorems *)

(* The invariant holds of every reachable state, when no request is late.     *)
THEOREM OrderInvariance == ASSUME ~Late PROVE Spec => []OInv
<1>1. ASSUME OInv, [Next]_vars PROVE OInv'
  <2>1. ASSUME NEW c \in Conn, SendRegular(c) PROVE OInv'
    BY <1>1, <2>1, SendRegularStep
  <2>2. ASSUME NEW f \in open, Return(f) PROVE OInv'
    BY <1>1, <2>2, ReturnStep
  <2>3. ASSUME NEW h \in Host, NEW r \in Id, Serve(h, r) \/ Drop(h, r) \/ Lose(h, r)
        PROVE  OInv'
    BY <1>1, <2>3, RegisterStep, PollStep, FinishStep, DropStep, LoseStep DEF Serve
  <2>4. CASE UNCHANGED vars
    BY <1>1, <2>4
    DEF vars, coordinatorVars, OInv, TurnIsHeld, OrderTypeOK, Placed, Alone,
        Launches, Ascending, Expecting, Over, ToCome, Coming, Reserved
  <2> QED BY <1>1, <2>1, <2>2, <2>3, <2>4, SendStripedStep, SkipStep DEF Next
<1> QED BY <1>1, OrderInit, PTL DEF Spec

(* On every host the ids launch in ascending order, so that no two hosts give *)
(* their turns to reductions that each wait for the other.                   *)
THEOREM HostsLaunchInOneOrder == ASSUME ~Late PROVE Spec => []NoCrossedTurns
<1>1. OInv => NoCrossedTurns
  <2> SUFFICES ASSUME OInv, NEW g \in Host, NEW h \in Host, NEW r \in Id, NEW s \in Id,
                      active[g] = r, active[h] = s, ToCome(g, s), ToCome(h, r)
               PROVE  FALSE
    BY DEF NoCrossedTurns
  <2>1. r \in launched[g] /\ s \in launched[h]
    BY DEF OInv, TurnIsHeld, Launches
  <2>2. r < s /\ s < r
    BY <2>1 DEF OInv, Ascending
  <2> QED BY <2>2, OrderTypes
<1> QED BY <1>1, OrderInvariance, PTL

(* The order and the tickets of a host agree, whatever requests fail.         *)
THEOREM TurnsAreHeld == ASSUME ~Late PROVE Spec => []TurnIsHeld
<1>1. OInv => TurnIsHeld
  BY DEF OInv
<1> QED BY <1>1, OrderInvariance, PTL
=============================================================================
