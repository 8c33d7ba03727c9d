----------------------------- MODULE NodeProofs -----------------------------
(* Proofs about Node, for every number of nodes, paths and clients: its      *)
(* types, that a node alone on its path is found there, and which sessions   *)
(* Node.Close ends.                                                          *)
EXTENDS Node, Integers, TLAPS, SequenceTheorems

-----------------------------------------------------------------------------
(* The inductive invariant.                                                *)

\* the closers
CloserNames == {"listener", "hub", "socket", "tailcat"}

\* What Node.closers may hold: it grows from the listener's closer on and is
\* run from its end.
One == <<"listener">>
Two(n) == <<"listener", Second(n)>>
Three(n) == <<"listener", Second(n), "tailcat">>
Closings(n) == {<<>>, One, Two(n), Three(n)}

\* The closers of a node belong to how far it is: there are some from net.Listen
\* to the end of Close, both that newLocal or Join adds until Close begins, and
\* Hub.Close runs only in a node that has a hub.
Shape ==
    /\ closers \in [Nodes -> Seq(CloserNames)]
    /\ \A n \in Nodes :
          /\ closers[n] \in Closings(n)
          /\ life[n] \in {"new", "bind", "failed", "closed", "exited"} <=> closers[n] = <<>>
          /\ life[n] \in {"start", "copied"} => closers[n] = Two(n)
          /\ life[n] = "up" => closers[n] # One
          /\ life[n] = "copied" => n \in Serves

\* Two processes that are alive on one path have met.
Apart ==
    \A m, n \in Nodes :
        m # n /\ PathOf[m] = PathOf[n] /\ Alive(m) /\ Alive(n) => n \in shared

\* What a node that met nobody finds at its path: its own socket from net.Listen
\* to Close, nothing between os.Remove and net.Listen, never its own before
\* and after that.
FileOf ==
    \A n \in Nodes \ shared :
        /\ life[n] # "failed"
        /\ life[n] = "bind" => file[PathOf[n]] = NoNode
        /\ life[n] \in {"start", "up"} => file[PathOf[n]] = n
        /\ life[n] \in {"new", "closed"} => file[PathOf[n]] # n

\* A session has a connection, a connection leads to a node, and the hubs list
\* only sessions there are or were.
Begun ==
    /\ \A c \in Clients : /\ conn[c] = "none" => sess[c] = "none"
                          /\ conn[c] # "none" => at[c] # NoNode
    /\ \A n \in Serves : \A c \in sessions[n] \cup copied[n] : sess[c] # "none"

\* An open session will be closed by Hub.Close, from its table or from its copy
\* of it, unless it came after the copy.
Held(c, h) ==
    \/ c \in late
    \/ c \in sessions[h] /\ ~Copied(h)
    \/ c \in copied[h]
Tracked == \A c \in Clients : sess[c] = "open" => Held(c, HubOf(c))

NodeInv == TypeOK /\ Shape /\ Apart /\ FileOf /\ Begun /\ Tracked

-----------------------------------------------------------------------------
(* The lists of closers.                                                   *)

\* A sequence whose elements are the first ones of another is what SubSeq takes
\* from its beginning.
LEMMA Beginning ==
    ASSUME NEW S, NEW s \in Seq(S), NEW t \in Seq(S), Len(s) <= Len(t),
           \A i \in 1..Len(s) : s[i] = t[i]
    PROVE  SubSeq(t, 1, Len(s)) = s
<1>1. /\ Len(s) \in Nat /\ Len(t) \in Nat
      /\ \A i \in 1..Len(t) : t[i] \in S
  BY ElementOfSeq, LenProperties
<1> DEFINE n == Len(s)
           b == SubSeq(t, 1, n)
<1>2. n \in Int /\ n \in Nat /\ \A i \in 1..n : t[i] \in S
  BY <1>1
<1>3. /\ b \in Seq(S) /\ Len(b) = IF 1 <= n THEN n - 1 + 1 ELSE 0
      /\ \A i \in 1..n - 1 + 1 : b[i] = t[1 + i - 1]
  BY <1>2, SubSeqProperties
<1> HIDE DEF b
<1>4. Len(b) = n
  BY <1>2, <1>3
<1>5. \A i \in 1..Len(b) : b[i] = s[i]
  BY <1>2, <1>3, <1>4
<1>6. b = s
  BY <1>3, <1>4, <1>5, SeqEqual
<1> QED BY <1>6 DEF b

\* Lists of up to three closers, element by element.
LEMMA Elements ==
    ASSUME NEW S, NEW x \in S, NEW y \in S, NEW z \in S
    PROVE  /\ <<>> \in Seq(S) /\ Len(<<>>) = 0
           /\ <<x>> \in Seq(S) /\ Len(<<x>>) = 1 /\ <<x>>[1] = x
           /\ <<x, y>> \in Seq(S) /\ Len(<<x, y>>) = 2 /\ <<x, y>>[1] = x /\ <<x, y>>[2] = y
           /\ <<x, y, z>> \in Seq(S) /\ Len(<<x, y, z>>) = 3
           /\ <<x, y, z>>[1] = x /\ <<x, y, z>>[2] = y /\ <<x, y, z>>[3] = z
<1>1. <<>> \in Seq(S) /\ Len(<<>>) = 0
  OBVIOUS
<1>2. <<x>> \in Seq(S) /\ Len(<<x>>) = 1 /\ <<x>>[1] = x
  OBVIOUS
<1>3. <<x, y>> \in Seq(S) /\ Len(<<x, y>>) = 2 /\ <<x, y>>[1] = x /\ <<x, y>>[2] = y
  OBVIOUS
<1>4. <<x, y, z>> \in Seq(S) /\ Len(<<x, y, z>>) = 3
  OBVIOUS
<1>5. <<x, y, z>>[1] = x /\ <<x, y, z>>[2] = y /\ <<x, y, z>>[3] = z
  OBVIOUS
<1> QED BY <1>1, <1>2, <1>3, <1>4, <1>5

\* The last closer of a list and what is left when it has run, and whether the
\* list holds the closer of the hub.
LEMMA Lists ==
    ASSUME NEW x \in {"hub", "socket"}
    PROVE  /\ Last(<<"listener">>) = "listener" /\ Front(<<"listener">>) = <<>>
           /\ Last(<<"listener", x>>) = x /\ Front(<<"listener", x>>) = <<"listener">>
           /\ Last(<<"listener", x, "tailcat">>) = "tailcat"
           /\ Front(<<"listener", x, "tailcat">>) = <<"listener", x>>
           /\ Append(<<"listener", x>>, "tailcat") = <<"listener", x, "tailcat">>
           /\ ~Contains(<<>>, "hub") /\ ~Contains(<<"listener">>, "hub")
           /\ Contains(<<"listener", x>>, "hub") <=> x = "hub"
           /\ Contains(<<"listener", x, "tailcat">>, "hub") <=> x = "hub"
<1> DEFINE l0 == <<>>
           l1 == <<"listener">>
           l2 == <<"listener", x>>
           l3 == <<"listener", x, "tailcat">>
<1>1. /\ l0 \in Seq(CloserNames) /\ l1 \in Seq(CloserNames) /\ l2 \in Seq(CloserNames) /\ l3 \in Seq(CloserNames)
      /\ Len(l0) = 0 /\ Len(l1) = 1 /\ Len(l2) = 2 /\ Len(l3) = 3
      /\ l1[1] = "listener" /\ l2[1] = "listener" /\ l2[2] = x
      /\ l3[1] = "listener" /\ l3[2] = x /\ l3[3] = "tailcat"
  <2>1. x \in CloserNames /\ "listener" \in CloserNames /\ "tailcat" \in CloserNames
    BY DEF CloserNames
  <2> QED BY <2>1, Elements
<1> HIDE DEF l0, l1, l2, l3
<1>2. Append(l2, "tailcat") = l3
  <2> DEFINE a == Append(l2, "tailcat")
  <2>1. "tailcat" \in CloserNames
    BY DEF CloserNames
  <2>2. /\ a \in Seq(CloserNames) /\ Len(a) = Len(l2) + 1 /\ a[Len(l2) + 1] = "tailcat"
        /\ \A i \in 1..Len(l2) : a[i] = l2[i]
    <3>1. l2 \in Seq(CloserNames)
      BY <1>1
    <3> QED BY <2>1, <3>1, AppendProperties
  <2> HIDE DEF a
  <2>3. \A i \in 1..3 : a[i] = l3[i]
    BY <1>1, <2>2
  <2>4. a = l3
    BY <1>1, <2>2, <2>3, SeqEqual
  <2> QED BY <2>4 DEF a
<1>3. Last(l1) = "listener" /\ Last(l2) = x /\ Last(l3) = "tailcat"
  BY <1>1 DEF Last
<1>4. Front(l1) = l0
  <2>1. SubSeq(l1, 1, Len(l0)) = l0
    BY <1>1, Beginning
  <2> QED BY <1>1, <2>1 DEF Front
<1>5. Front(l2) = l1
  <2>1. \A i \in 1..1 : l1[i] = l2[i]
    BY <1>1
  <2>2. SubSeq(l2, 1, Len(l1)) = l1
    BY <1>1, <2>1, Beginning
  <2> QED BY <1>1, <2>2 DEF Front
<1>6. Front(l3) = l2
  <2>1. \A i \in 1..2 : l2[i] = l3[i]
    BY <1>1
  <2>2. SubSeq(l3, 1, Len(l2)) = l2
    BY <1>1, <2>1, Beginning
  <2> QED BY <1>1, <2>2 DEF Front
<1>7. ~Contains(l0, "hub") /\ ~Contains(l1, "hub")
  BY <1>1 DEF Contains
<1>8. Contains(l2, "hub") <=> x = "hub"
  BY <1>1 DEF Contains
<1>9. Contains(l3, "hub") <=> x = "hub"
  BY <1>1 DEF Contains
<1> QED BY <1>2, <1>3, <1>4, <1>5, <1>6, <1>7, <1>8, <1>9 DEF l0, l1, l2, l3

\* Every list the closers may be is a prefix of the longest.
LEMMA ListsPrefix ==
    ASSUME NEW n \in Nodes, NEW s \in Closings(n)
    PROVE  IsPrefix(s, <<"listener", Second(n), "tailcat">>) /\ s \in Seq(CloserNames)
<1> DEFINE x == Second(n)
           l1 == <<"listener">>
           l2 == <<"listener", x>>
           l3 == <<"listener", x, "tailcat">>
<1>1. x \in CloserNames
  BY DEF Second, CloserNames
<1>2. s \in {<<>>, l1, l2, l3}
  BY DEF Closings, One, Two, Three
<1> HIDE DEF x
<1>3. /\ <<>> \in Seq(CloserNames) /\ l1 \in Seq(CloserNames)
      /\ l2 \in Seq(CloserNames) /\ l3 \in Seq(CloserNames)
      /\ Len(<<>>) = 0 /\ Len(l1) = 1 /\ Len(l2) = 2 /\ Len(l3) = 3
      /\ l1[1] = l3[1] /\ l2[1] = l3[1] /\ l2[2] = l3[2]
  <2>1. "listener" \in CloserNames /\ "tailcat" \in CloserNames
    BY DEF CloserNames
  <2> QED BY <1>1, <2>1, Elements
<1> HIDE DEF l1, l2, l3
<1>4. s \in Seq(CloserNames)
  BY <1>2, <1>3
<1>5. Len(s) \in Nat /\ Len(s) <= Len(l3)
  <2> DEFINE k == Len(s)
             m == Len(l3)
  <2>1. m = 3 /\ (k = 0 \/ k = 1 \/ k = 2 \/ k = 3)
    BY <1>2, <1>3
  <2> HIDE DEF k, m
  <2>2. k \in Nat /\ k <= m
    BY <2>1
  <2> QED BY <2>2 DEF k, m
<1>6. \A i \in 1..Len(s) : s[i] = l3[i]
  <2>0. 1..0 = {} /\ 1..1 = {1} /\ 1..2 = {1, 2}
    OBVIOUS
  <2>1. CASE s = <<>>
    BY <1>3, <2>1
  <2>2. CASE s = l1
    <3>1. Len(s) = 1 /\ s[1] = l3[1]
      BY <1>3, <2>2
    <3> QED BY <2>0, <3>1
  <2>3. CASE s = l2
    <3>1. Len(s) = 2 /\ s[1] = l3[1] /\ s[2] = l3[2]
      BY <1>3, <2>3
    <3> QED BY <2>0, <3>1
  <2>4. CASE s = l3
    BY <2>4
  <2> QED BY <1>2, <2>1, <2>2, <2>3, <2>4
<1>7. SubSeq(l3, 1, Len(s)) = s
  BY <1>3, <1>4, <1>5, <1>6, Beginning
<1>8. SubSeq(s, 1, Len(s)) = s
  BY <1>4, SubSeqFull
<1>9. IsPrefix(s, l3)
  BY <1>5, <1>7, <1>8 DEF IsPrefix
<1> QED BY <1>4, <1>9 DEF x, l3

\* The same for the closers of a node: which one runs next, what is left then,
\* whether the hub is still to be closed, and that no two lists are the same.
LEMMA ClosingFacts ==
    ASSUME NEW n \in Nodes
    PROVE  /\ Second(n) # "listener" /\ Second(n) # "tailcat"
           /\ Second(n) = "hub" <=> n \in Serves
           /\ Last(One) = "listener" /\ Front(One) = <<>>
           /\ Last(Two(n)) = Second(n) /\ Front(Two(n)) = One
           /\ Last(Three(n)) = "tailcat" /\ Front(Three(n)) = Two(n)
           /\ Append(Two(n), "tailcat") = Three(n)
           /\ ~Contains(<<>>, "hub") /\ ~Contains(One, "hub")
           /\ Contains(Two(n), "hub") <=> n \in Serves
           /\ Contains(Three(n), "hub") <=> n \in Serves
           /\ <<>> # One /\ <<>> # Two(n) /\ <<>> # Three(n)
           /\ One # Two(n) /\ One # Three(n) /\ Two(n) # Three(n)
<1> DEFINE x == Second(n)
<1>1. /\ x \in {"hub", "socket"} /\ x # "listener" /\ x # "tailcat"
      /\ x = "hub" <=> n \in Serves
  BY DEF Second
<1> HIDE DEF x
<1>2. /\ Last(<<"listener">>) = "listener" /\ Front(<<"listener">>) = <<>>
      /\ Last(<<"listener", x>>) = x /\ Front(<<"listener", x>>) = <<"listener">>
      /\ Last(<<"listener", x, "tailcat">>) = "tailcat"
      /\ Front(<<"listener", x, "tailcat">>) = <<"listener", x>>
      /\ Append(<<"listener", x>>, "tailcat") = <<"listener", x, "tailcat">>
      /\ ~Contains(<<>>, "hub") /\ ~Contains(<<"listener">>, "hub")
      /\ Contains(<<"listener", x>>, "hub") <=> x = "hub"
      /\ Contains(<<"listener", x, "tailcat">>, "hub") <=> x = "hub"
  BY <1>1, Lists
<1>3. /\ Len(<<>>) = 0 /\ Len(<<"listener">>) = 1 /\ Len(<<"listener", x>>) = 2
      /\ Len(<<"listener", x, "tailcat">>) = 3
  <2>1. x \in CloserNames /\ "listener" \in CloserNames /\ "tailcat" \in CloserNames
    BY <1>1 DEF CloserNames
  <2> QED BY <2>1, Elements
<1> DEFINE l1 == <<"listener">>
           l2 == <<"listener", x>>
           l3 == <<"listener", x, "tailcat">>
<1>4. /\ Last(l1) = "listener" /\ Front(l1) = <<>> /\ Last(l2) = x /\ Front(l2) = l1
      /\ Last(l3) = "tailcat" /\ Front(l3) = l2 /\ Append(l2, "tailcat") = l3
      /\ ~Contains(<<>>, "hub") /\ ~Contains(l1, "hub")
      /\ Contains(l2, "hub") <=> x = "hub"
      /\ Contains(l3, "hub") <=> x = "hub"
      /\ Len(<<>>) = 0 /\ Len(l1) = 1 /\ Len(l2) = 2 /\ Len(l3) = 3
  BY <1>2, <1>3
<1>5. One = l1 /\ Two(n) = l2 /\ Three(n) = l3 /\ Second(n) = x
  BY DEF One, Two, Three, x
<1> HIDE DEF l1, l2, l3
<1>6. <<>> # l1 /\ <<>> # l2 /\ <<>> # l3 /\ l1 # l2 /\ l1 # l3 /\ l2 # l3
  <2>1. 0 # 1 /\ 0 # 2 /\ 0 # 3 /\ 1 # 2 /\ 1 # 3 /\ 2 # 3
    OBVIOUS
  <2> QED BY <1>4, <2>1
<1> QED BY <1>1, <1>4, <1>5, <1>6

\* What is known of a node when one of its closers has its turn.
LEMMA Turns ==
    ASSUME Shape, NEW n \in Nodes
    PROVE  /\ Turn(n, "tailcat") =>
                 life[n] = "closing" /\ closers[n] = Three(n) /\ Front(closers[n]) = Two(n)
           /\ Turn(n, "hub") => life[n] = "closing" /\ closers[n] = Two(n) /\ n \in Serves
           /\ Turn(n, "socket") =>
                 life[n] = "closing" /\ closers[n] = Two(n) /\ Front(closers[n]) = One
           /\ Turn(n, "listener") =>
                 life[n] = "closing" /\ closers[n] = One /\ Front(closers[n]) = <<>>
           /\ life[n] = "copied" =>
                 closers[n] = Two(n) /\ n \in Serves /\ Front(closers[n]) = One
<1>1. closers[n] \in {<<>>, One, Two(n), Three(n)}
  BY DEF Shape, Closings
<1>2. life[n] = "copied" => closers[n] = Two(n) /\ n \in Serves
  BY DEF Shape
<1> DEFINE k == Last(closers[n])
<1>3. \A w : Turn(n, w) <=> life[n] = "closing" /\ closers[n] # <<>> /\ k = w
  BY DEF Turn
<1>4. /\ closers[n] = One => k = "listener"
      /\ closers[n] = Two(n) => k = Second(n)
      /\ closers[n] = Three(n) => k = "tailcat"
  BY ClosingFacts
<1> HIDE DEF k
<1>5. /\ Second(n) # "listener" /\ Second(n) # "tailcat"
      /\ Second(n) = "hub" <=> n \in Serves
  BY ClosingFacts
<1>6. /\ Front(One) = <<>> /\ Front(Two(n)) = One /\ Front(Three(n)) = Two(n)
  BY ClosingFacts
<1>7. /\ Turn(n, "tailcat") => life[n] = "closing" /\ closers[n] = Three(n)
      /\ Turn(n, "hub") => life[n] = "closing" /\ closers[n] = Two(n) /\ n \in Serves
      /\ Turn(n, "socket") => life[n] = "closing" /\ closers[n] = Two(n)
      /\ Turn(n, "listener") => life[n] = "closing" /\ closers[n] = One
  BY <1>1, <1>3, <1>4, <1>5
<1> QED BY <1>2, <1>6, <1>7

-----------------------------------------------------------------------------
(* The initial states satisfy the invariant.                               *)

\* Nothing has been started, so nothing is on a path.
LEMMA InitInv == Init => NodeInv
<1> SUFFICES ASSUME Init PROVE NodeInv
  OBVIOUS
<1> USE NodeAssumption DEF Init
<1>1. \A n \in Nodes : closers[n] = <<>> /\ <<>> \in Closings(n)
  BY DEF Closings
<1>2. TypeOK
  <2>1. \A n \in Nodes : IsPrefix(closers[n], <<"listener", Second(n), "tailcat">>)
    BY <1>1, ListsPrefix
  <2> QED BY <2>1 DEF TypeOK, Lives, Conns, Nodes
<1>3. Shape
  <2>1. <<>> \in Seq(CloserNames)
    OBVIOUS
  <2> QED BY <1>1, <2>1 DEF Shape
<1>4. Apart
  BY DEF Apart, Alive
<1>5. FileOf
  BY DEF FileOf, Nodes
<1>6. Begun /\ Tracked
  BY DEF Begun, Tracked
<1> QED BY <1>2, <1>3, <1>4, <1>5, <1>6 DEF NodeInv

-----------------------------------------------------------------------------
(* The closers.                                                            *)

\* A node that gets one of the lists, of a length that belongs to how far it is.
LEMMA Reshaped ==
    ASSUME TypeOK, Shape, NEW n \in Nodes, NEW l, NEW q \in Closings(n),
           life' = [life EXCEPT ![n] = l], closers' = [closers EXCEPT ![n] = q],
           l \in {"new", "bind", "failed", "closed", "exited"} <=> q = <<>>,
           l \in {"start", "copied"} => q = Two(n),
           l = "up" => q # One,
           l = "copied" => n \in Serves
    PROVE  Shape'
<1>1. q \in Seq(CloserNames)
  BY ListsPrefix
<1>2. closers' \in [Nodes -> Seq(CloserNames)]
  BY <1>1 DEF Shape
<1>3. ASSUME NEW m \in Nodes
      PROVE  /\ closers'[m] \in Closings(m)
             /\ life'[m] \in {"new", "bind", "failed", "closed", "exited"} <=> closers'[m] = <<>>
             /\ life'[m] \in {"start", "copied"} => closers'[m] = Two(m)
             /\ life'[m] = "up" => closers'[m] # One
             /\ life'[m] = "copied" => m \in Serves
  <2>1. CASE m = n
    <3>1. life'[m] = l /\ closers'[m] = q
      BY <2>1 DEF TypeOK, Shape
    <3> QED BY <2>1, <3>1
  <2>2. CASE m # n
    <3>1. life'[m] = life[m] /\ closers'[m] = closers[m]
      BY <2>2 DEF TypeOK, Shape
    <3> QED BY <3>1 DEF Shape
  <2> QED BY <2>1, <2>2
<1>4. \A m \in Nodes : Two(m)' = Two(m) /\ Closings(m)' = Closings(m) /\ One' = One
  BY DEF Closings, One, Two, Three, Second
<1> QED BY <1>2, <1>3, <1>4 DEF Shape

\* Serve, Join and Close keep the closers in order.
LEMMA StepShape ==
    ASSUME TypeOK, Shape, [Next]_vars
    PROVE  Shape'
<1>1. CASE life' = life /\ closers' = closers
  BY <1>1 DEF Shape, Closings, One, Two, Three, Second
<1>2. CASE \E c \in Clients : ClientStep(c)
  BY <1>1, <1>2 DEF ClientStep, Connect, Accept, DialRemote, Register, ClientLeaves,
                    SessionEnds, SpliceEnds, nodeVars
<1>3. ASSUME NEW n \in Nodes, NodeStep(n) PROVE Shape'
  <2>0. /\ closers = [closers EXCEPT ![n] = closers[n]]
        /\ life = [life EXCEPT ![n] = life[n]]
        /\ <<>> \in Closings(n) /\ One \in Closings(n) /\ Two(n) \in Closings(n)
        /\ Three(n) \in Closings(n) /\ closers[n] \in Closings(n)
        /\ <<>> # One /\ <<>> # Two(n) /\ <<>> # Three(n)
        /\ One # Two(n) /\ One # Three(n) /\ Two(n) # Three(n)
    BY ClosingFacts DEF TypeOK, Shape, Closings
  <2>1. CASE RemoveFile(n)
    <3>1. /\ life[n] = "new" /\ life' = [life EXCEPT ![n] = "bind"]
          /\ closers' = [closers EXCEPT ![n] = closers[n]]
      BY <2>0, <2>1 DEF RemoveFile, Arrives, Becomes
    <3>2. closers[n] = <<>>
      BY <3>1 DEF Shape
    <3> QED BY <2>0, <3>1, <3>2, Reshaped
  <2>2. CASE Listen(n)
    <3>1. life[n] = "bind" /\ closers[n] = <<>>
      BY <2>2 DEF Listen, Shape
    <3>2. \/ /\ life' = [life EXCEPT ![n] = "start"]
             /\ closers' = [closers EXCEPT ![n] = Two(n)]
          \/ /\ life' = [life EXCEPT ![n] = "failed"]
             /\ closers' = [closers EXCEPT ![n] = closers[n]]
      BY <2>0, <2>2 DEF Listen, Becomes, Two
    <3>3. CASE /\ life' = [life EXCEPT ![n] = "start"]
               /\ closers' = [closers EXCEPT ![n] = Two(n)]
      BY <2>0, <3>3, Reshaped
    <3>4. CASE /\ life' = [life EXCEPT ![n] = "failed"]
               /\ closers' = [closers EXCEPT ![n] = closers[n]]
      BY <2>0, <3>1, <3>4, Reshaped
    <3> QED BY <3>2, <3>3, <3>4
  <2>3. CASE Start(n)
    <3>1. life[n] = "start" /\ closers[n] = Two(n) /\ life' = [life EXCEPT ![n] = "up"]
      BY <2>3 DEF Start, Becomes, Shape
    <3>2. \/ closers' = [closers EXCEPT ![n] = Three(n)]
          \/ closers' = [closers EXCEPT ![n] = Two(n)]
      <4>1. \/ closers' = [closers EXCEPT ![n] = Append(closers[n], "tailcat")]
            \/ closers' = closers
        BY <2>3 DEF Start
      <4>2. Append(closers[n], "tailcat") = Three(n)
        BY <3>1, ClosingFacts
      <4> QED BY <2>0, <3>1, <4>1, <4>2
    <3>3. CASE closers' = [closers EXCEPT ![n] = Three(n)]
      BY <2>0, <3>1, <3>3, Reshaped
    <3>4. CASE closers' = [closers EXCEPT ![n] = Two(n)]
      BY <2>0, <3>1, <3>4, Reshaped
    <3> QED BY <3>2, <3>3, <3>4
  <2>4. CASE StartFails(n) \/ CloseBegins(n)
    <3>1. /\ life[n] \in {"start", "up"} /\ life' = [life EXCEPT ![n] = "closing"]
          /\ closers' = [closers EXCEPT ![n] = closers[n]]
      BY <2>0, <2>4 DEF StartFails, CloseBegins, Becomes
    <3>2. closers[n] # <<>>
      BY <3>1 DEF Shape
    <3> QED BY <2>0, <3>1, <3>2, Reshaped
  <2>5. CASE CloseTailcat(n)
    <3>1. /\ life' = [life EXCEPT ![n] = "closing"]
          /\ closers' = [closers EXCEPT ![n] = Two(n)]
      <4>1. Turn(n, "tailcat") /\ Done(n) /\ life' = life
        BY <2>5 DEF CloseTailcat
      <4> QED BY <2>0, <4>1, Turns DEF Done
    <3> QED BY <2>0, <3>1, Reshaped
  <2>6. CASE CopySessions(n)
    <3>1. /\ life' = [life EXCEPT ![n] = "copied"] /\ n \in Serves
          /\ closers' = [closers EXCEPT ![n] = Two(n)]
      <4>1. Turn(n, "hub") /\ Becomes(n, "copied") /\ closers' = closers
        BY <2>6 DEF CopySessions
      <4> QED BY <2>0, <4>1, Turns DEF Becomes
    <3> QED BY <2>0, <3>1, Reshaped
  <2>7. CASE CloseCopied(n)
    BY <1>1, <2>7 DEF CloseCopied, nodeVars
  <2>8. CASE HubClosed(n)
    <3>1. /\ life' = [life EXCEPT ![n] = "closing"]
          /\ closers' = [closers EXCEPT ![n] = One]
      <4>1. life[n] = "copied" /\ Becomes(n, "closing") /\ Done(n)
        BY <2>8 DEF HubClosed
      <4> QED BY <4>1, Turns DEF Done, Becomes
    <3> QED BY <2>0, <3>1, Reshaped
  <2>9. CASE CloseSocket(n)
    <3>1. /\ life' = [life EXCEPT ![n] = "closing"]
          /\ closers' = [closers EXCEPT ![n] = One]
      <4>1. Turn(n, "socket") /\ Done(n) /\ life' = life
        BY <2>9 DEF CloseSocket
      <4> QED BY <2>0, <4>1, Turns DEF Done
    <3> QED BY <2>0, <3>1, Reshaped
  <2>10. CASE CloseListener(n)
    <3>1. /\ life' = [life EXCEPT ![n] = "closed"]
          /\ closers' = [closers EXCEPT ![n] = <<>>]
      <4>1. Turn(n, "listener") /\ Done(n) /\ Becomes(n, "closed")
        BY <2>10 DEF CloseListener
      <4> QED BY <4>1, Turns DEF Done, Becomes
    <3> QED BY <2>0, <3>1, Reshaped
  <2>11. CASE Exit(n)
    <3>1. /\ life' = [life EXCEPT ![n] = "exited"]
          /\ closers' = [closers EXCEPT ![n] = <<>>]
      BY <2>11 DEF Exit, Becomes
    <3> QED BY <2>0, <3>1, Reshaped
  <2> QED BY <1>3, <2>1, <2>2, <2>3, <2>4, <2>5, <2>6, <2>7, <2>8, <2>9, <2>10, <2>11
          DEF NodeStep, Closer
<1>4. CASE UNCHANGED vars
  BY <1>1, <1>4 DEF vars, nodeVars
<1> QED BY <1>2, <1>3, <1>4 DEF Next

-----------------------------------------------------------------------------
(* The paths.                                                              *)

\* No action but os.Remove of Serve or Join makes a process live.
LEMMA Lifes ==
    ASSUME TypeOK, [Next]_vars, ~(\E n \in Nodes : RemoveFile(n))
    PROVE  /\ \A m \in Nodes : Alive(m)' => Alive(m)
           /\ shared' = shared
<1>1. CASE life' = life /\ shared' = shared
  BY <1>1 DEF Alive
<1>2. CASE \E c \in Clients : ClientStep(c)
  BY <1>1, <1>2 DEF ClientStep, Connect, Accept, DialRemote, Register, ClientLeaves,
                    SessionEnds, SpliceEnds, nodeVars
<1>3. ASSUME NEW n \in Nodes, NodeStep(n), ~RemoveFile(n)
      PROVE  /\ \A m \in Nodes : Alive(m)' => Alive(m)
             /\ shared' = shared
  <2>1. CASE CloseTailcat(n) \/ CloseCopied(n) \/ CloseSocket(n)
    BY <1>1, <2>1 DEF CloseTailcat, CloseCopied, CloseSocket, nodeVars
  <2>2. CASE Listen(n) \/ Start(n) \/ StartFails(n) \/ CloseBegins(n)
    BY <2>2 DEF Listen, Start, StartFails, CloseBegins, Becomes, TypeOK, Alive
  <2>3. CASE CopySessions(n) \/ HubClosed(n) \/ CloseListener(n)
    BY <2>3 DEF CopySessions, HubClosed, CloseListener, Turn, Becomes, TypeOK, Alive
  <2>4. CASE Exit(n)
    BY <2>4 DEF Exit, Becomes, TypeOK, Alive
  <2> QED BY <1>3, <2>1, <2>2, <2>3, <2>4 DEF NodeStep, Closer
<1>4. CASE UNCHANGED vars
  BY <1>1, <1>4 DEF vars, nodeVars
<1> QED BY <1>2, <1>3, <1>4 DEF Next

\* Who comes to a path notes the processes it meets there, and they note it.
LEMMA StepApart ==
    ASSUME TypeOK, Apart, [Next]_vars
    PROVE  Apart'
<1>1. CASE ~(\E n \in Nodes : RemoveFile(n))
  BY <1>1, Lifes DEF Apart
<1>2. ASSUME NEW n \in Nodes, RemoveFile(n) PROVE Apart'
  <2>1. /\ life' = [life EXCEPT ![n] = "bind"]
        /\ shared' = IF Meets(n) = {} THEN shared ELSE shared \cup Meets(n) \cup {n}
    BY <1>2 DEF RemoveFile, Arrives, Becomes
  <2>2. \A m \in Nodes : m # n => (Alive(m)' <=> Alive(m))
    BY <2>1 DEF Alive, TypeOK
  <2> SUFFICES ASSUME NEW m \in Nodes, NEW k \in Nodes,
                      m # k, PathOf[m] = PathOf[k], Alive(m)', Alive(k)'
               PROVE  k \in shared'
    BY DEF Apart
  <2>3. CASE m = n
    <3>1. k \in Meets(n)
      BY <2>2, <2>3 DEF Meets
    <3> QED BY <2>1, <3>1
  <2>4. CASE k = n
    <3>1. m \in Meets(n)
      BY <2>2, <2>4 DEF Meets
    <3> QED BY <2>1, <2>4, <3>1
  <2>5. CASE m # n /\ k # n
    <3>1. k \in shared
      BY <2>2, <2>5 DEF Apart
    <3> QED BY <2>1, <3>1
  <2> QED BY <2>3, <2>4, <2>5
<1> QED BY <1>1, <1>2

\* A live node that moves on and leaves its path alone, puts its socket there or
\* takes away what there is, and does for itself what FileOf asks, takes nothing
\* from a node that met nobody.
LEMMA Refiled ==
    ASSUME TypeOK, Apart, FileOf, NEW n \in Nodes, NEW l, Alive(n),
           NEW x \in {NoNode, n, file[PathOf[n]]},
           life' = [life EXCEPT ![n] = l], file' = [file EXCEPT ![PathOf[n]] = x],
           shared' = shared,
           n \notin shared => /\ l \notin {"failed", "bind", "new"}
                              /\ l \in {"start", "up"} => x = n
                              /\ l = "closed" => x # n
    PROVE  FileOf'
<1>1. PathOf \in [Nodes -> Paths] /\ \A m \in Nodes : m # NoNode
  BY NodeAssumption
<1> SUFFICES ASSUME NEW m \in Nodes, m \notin shared
             PROVE  /\ life'[m] # "failed"
                    /\ life'[m] = "bind" => file'[PathOf[m]] = NoNode
                    /\ life'[m] \in {"start", "up"} => file'[PathOf[m]] = m
                    /\ life'[m] \in {"new", "closed"} => file'[PathOf[m]] # m
  BY DEF FileOf
<1>2. CASE m = n
  <2>1. life'[m] = l /\ file'[PathOf[m]] = x
    BY <1>1, <1>2 DEF TypeOK
  <2> QED BY <1>2, <2>1
<1>3. CASE m # n /\ PathOf[m] # PathOf[n]
  <2>1. life'[m] = life[m] /\ file'[PathOf[m]] = file[PathOf[m]]
    BY <1>1, <1>3 DEF TypeOK
  <2> QED BY <2>1 DEF FileOf
<1>4. CASE m # n /\ PathOf[m] = PathOf[n]
  <2>1. life'[m] = life[m] /\ file'[PathOf[m]] = x
    BY <1>1, <1>4 DEF TypeOK
  <2>2. ~Alive(m)
    BY <1>4 DEF Apart
  <2>3. /\ life[m] # "failed" /\ life[m] \notin {"bind", "start", "up"}
        /\ life[m] \in {"new", "closed"} => file[PathOf[n]] # m
    BY <1>4, <2>2 DEF Alive, FileOf
  <2> QED BY <1>1, <1>4, <2>1, <2>3
<1> QED BY <1>2, <1>3, <1>4

\* What is at the path of a node that met nobody.
LEMMA StepFileOf ==
    ASSUME TypeOK, Shape, Apart, FileOf, [Next]_vars
    PROVE  FileOf'
<1>0. PathOf \in [Nodes -> Paths] /\ \A m \in Nodes : m # NoNode
  BY NodeAssumption
<1>1. CASE life' = life /\ file' = file /\ shared' = shared
  BY <1>1 DEF FileOf
<1>2. CASE \E c \in Clients : ClientStep(c)
  BY <1>1, <1>2 DEF ClientStep, Connect, Accept, DialRemote, Register, ClientLeaves,
                    SessionEnds, SpliceEnds, nodeVars
<1>3. ASSUME NEW n \in Nodes, NodeStep(n) PROVE FileOf'
  <2> DEFINE f == file[PathOf[n]]
  <2>0. life = [life EXCEPT ![n] = life[n]] /\ file = [file EXCEPT ![PathOf[n]] = f]
    BY <1>0 DEF TypeOK
  <2>1. CASE RemoveFile(n)
    <3>1. /\ life' = [life EXCEPT ![n] = "bind"]
          /\ file' = [file EXCEPT ![PathOf[n]] = NoNode]
          /\ shared' = IF Meets(n) = {} THEN shared ELSE shared \cup Meets(n) \cup {n}
      BY <2>1 DEF RemoveFile, Arrives, Becomes
    <3> SUFFICES ASSUME NEW m \in Nodes, m \notin shared'
                 PROVE  /\ life'[m] # "failed"
                        /\ life'[m] = "bind" => file'[PathOf[m]] = NoNode
                        /\ life'[m] \in {"start", "up"} => file'[PathOf[m]] = m
                        /\ life'[m] \in {"new", "closed"} => file'[PathOf[m]] # m
      BY DEF FileOf
    <3>2. CASE m = n
      <4>1. life'[m] = "bind" /\ file'[PathOf[m]] = NoNode
        BY <1>0, <3>1, <3>2 DEF TypeOK
      <4> QED BY <4>1
    <3>3. CASE m # n /\ PathOf[m] # PathOf[n]
      <4>1. /\ life'[m] = life[m] /\ file'[PathOf[m]] = file[PathOf[m]]
            /\ m \notin shared
        BY <1>0, <3>1, <3>3 DEF TypeOK
      <4> QED BY <4>1 DEF FileOf
    <3>4. CASE m # n /\ PathOf[m] = PathOf[n]
      <4>1. life'[m] = life[m] /\ file'[PathOf[m]] = NoNode /\ m \notin shared
        BY <1>0, <3>1, <3>4 DEF TypeOK
      <4>2. m \notin Meets(n)
        BY <3>1
      <4>3. ~Alive(m)
        BY <3>4, <4>2 DEF Meets
      <4> QED BY <1>0, <4>1, <4>3 DEF Alive, FileOf
    <3> QED BY <3>2, <3>3, <3>4
  <2>2. CASE Listen(n)
    <3>1. Alive(n) /\ life[n] = "bind" /\ shared' = shared
      BY <2>2 DEF Listen, Alive
    <3>2. n \notin shared => f = NoNode
      BY <3>1 DEF FileOf
    <3>3. \/ /\ life' = [life EXCEPT ![n] = "start"]
             /\ file' = [file EXCEPT ![PathOf[n]] = n]
          \/ /\ life' = [life EXCEPT ![n] = "failed"] /\ f # NoNode
             /\ file' = [file EXCEPT ![PathOf[n]] = f]
      BY <2>0, <2>2 DEF Listen, Becomes
    <3>4. CASE /\ life' = [life EXCEPT ![n] = "start"]
               /\ file' = [file EXCEPT ![PathOf[n]] = n]
      BY <3>1, <3>4, Refiled
    <3>5. CASE /\ life' = [life EXCEPT ![n] = "failed"] /\ f # NoNode
               /\ file' = [file EXCEPT ![PathOf[n]] = f]
      BY <3>1, <3>2, <3>5, Refiled
    <3> QED BY <3>3, <3>4, <3>5
  <2>3. CASE Start(n)
    <3>1. /\ life[n] = "start" /\ life' = [life EXCEPT ![n] = "up"] /\ shared' = shared
          /\ file' = [file EXCEPT ![PathOf[n]] = f]
      BY <2>0, <2>3 DEF Start, Becomes
    <3>2. Alive(n) /\ (n \notin shared => f = n)
      BY <3>1 DEF Alive, FileOf
    <3> QED BY <3>1, <3>2, Refiled
  <2>4. CASE StartFails(n) \/ CloseBegins(n)
    <3>1. /\ life[n] \in {"start", "up"} /\ life' = [life EXCEPT ![n] = "closing"]
          /\ shared' = shared /\ file' = [file EXCEPT ![PathOf[n]] = f]
      BY <2>0, <2>4 DEF StartFails, CloseBegins, Becomes
    <3>2. Alive(n)
      BY <3>1 DEF Alive
    <3> QED BY <3>1, <3>2, Refiled
  <2>5. CASE CloseTailcat(n) \/ CloseCopied(n)
    BY <1>1, <2>5 DEF CloseTailcat, CloseCopied, nodeVars
  <2>6. CASE CopySessions(n)
    <3>1. /\ life[n] = "closing" /\ life' = [life EXCEPT ![n] = "copied"]
          /\ shared' = shared /\ file' = [file EXCEPT ![PathOf[n]] = f]
      BY <2>0, <2>6 DEF CopySessions, Turn, Becomes
    <3>2. Alive(n)
      BY <3>1 DEF Alive
    <3> QED BY <3>1, <3>2, Refiled
  <2>7. CASE HubClosed(n)
    <3>1. /\ life[n] = "copied" /\ life' = [life EXCEPT ![n] = "closing"]
          /\ shared' = shared /\ file' = [file EXCEPT ![PathOf[n]] = NoNode]
      BY <2>7 DEF HubClosed, Unlink, Becomes
    <3>2. Alive(n)
      BY <3>1 DEF Alive
    <3> QED BY <3>1, <3>2, Refiled
  <2>8. CASE CloseSocket(n)
    <3>1. /\ life[n] = "closing" /\ life' = [life EXCEPT ![n] = "closing"]
          /\ shared' = shared /\ file' = [file EXCEPT ![PathOf[n]] = NoNode]
      BY <2>0, <2>8 DEF CloseSocket, Turn, Unlink
    <3>2. Alive(n)
      BY <3>1 DEF Alive
    <3> QED BY <3>1, <3>2, Refiled
  <2>9. CASE CloseListener(n)
    <3>1. /\ life[n] = "closing" /\ life' = [life EXCEPT ![n] = "closed"]
          /\ shared' = shared /\ file' = [file EXCEPT ![PathOf[n]] = NoNode]
      BY <2>9 DEF CloseListener, Turn, Unlink, Becomes
    <3>2. Alive(n)
      BY <3>1 DEF Alive
    <3> QED BY <1>0, <3>1, <3>2, Refiled
  <2>10. CASE Exit(n)
    <3>1. /\ life' = [life EXCEPT ![n] = "exited"] /\ file' = file /\ shared' = shared
      BY <2>10 DEF Exit, Becomes
    <3>2. \A m \in Nodes : life'[m] = IF m = n THEN "exited" ELSE life[m]
      BY <3>1 DEF TypeOK
    <3> QED BY <3>1, <3>2 DEF FileOf
  <2> QED BY <1>3, <2>1, <2>2, <2>3, <2>4, <2>5, <2>6, <2>7, <2>8, <2>9, <2>10
          DEF NodeStep, Closer
<1>4. CASE UNCHANGED vars
  BY <1>1, <1>4 DEF vars, nodeVars
<1> QED BY <1>2, <1>3, <1>4 DEF Next

-----------------------------------------------------------------------------
(* Connections and sessions.                                               *)

\* A client that has a session is connected, to a node that leads to a hub.
LEMMA Connected ==
    ASSUME TypeOK, Begun, NEW c \in Clients
    PROVE  /\ at[c] # NoNode => HubOf(c) \in Serves
           /\ sess[c] # "none" => at[c] # NoNode /\ HubOf(c) \in Serves
<1>1. at[c] # NoNode => at[c] \in Nodes
  BY DEF TypeOK
<1>2. at[c] # NoNode => HubOf(c) \in Serves
  BY <1>1, NodeAssumption DEF HubOf, Direct, Nodes
<1> QED BY <1>2 DEF Begun

\* What a session and a connection may do and leave Begun true: nothing goes back
\* to "none", and what the hubs list they listed before or has begun.
LEMMA Went ==
    ASSUME TypeOK, Begun,
           \A c \in Clients : /\ at[c] # NoNode => at'[c] # NoNode
                              /\ conn[c] = "none" => conn'[c] = "none" \/ at'[c] # NoNode
                              /\ conn[c] # "none" => conn'[c] # "none"
                              /\ sess[c] # "none" => sess'[c] # "none"
                              /\ conn[c] = "none" => sess'[c] = sess[c],
           \A n \in Serves : \A c \in sessions'[n] \cup copied'[n] :
               c \in sessions[n] \cup copied[n] \/ (c \in Clients /\ sess[c] # "none")
    PROVE  Begun'
<1>1. \A n \in Serves : sessions[n] \cup copied[n] \subseteq Clients
  BY DEF TypeOK
<1>2. \A c \in Clients : /\ conn'[c] = "none" => sess'[c] = "none"
                         /\ conn'[c] # "none" => at'[c] # NoNode
  BY DEF Begun
<1>3. \A n \in Serves : \A c \in sessions'[n] \cup copied'[n] : sess'[c] # "none"
  BY <1>1 DEF Begun
<1> QED BY <1>2, <1>3 DEF Begun

\* A session comes from a connection, and a connection stays with its node.
LEMMA StepBegun ==
    ASSUME TypeOK, Shape, Begun, [Next]_vars
    PROVE  Begun'
<1>0. \A n \in Nodes : n # NoNode
  BY NodeAssumption
<1>1. CASE UNCHANGED <<at, conn, sess, sessions, copied>>
  BY <1>1 DEF Begun
<1>2. ASSUME NEW c \in Clients, ClientStep(c) PROVE Begun'
  <2>1. CASE Connect(c)
    <3>1. /\ at' = [at EXCEPT ![c] = file[Target[c]]] /\ file[Target[c]] # NoNode
          /\ conn[c] = "none" /\ conn' = [conn EXCEPT ![c] = "queued"]
          /\ UNCHANGED <<sess, sessions, copied>>
      BY <2>1 DEF Connect, hubVars
    <3>2. \A d \in Clients : /\ at'[d] = IF d = c THEN file[Target[c]] ELSE at[d]
                             /\ conn'[d] = IF d = c THEN "queued" ELSE conn[d]
      BY <3>1 DEF TypeOK
    <3>8. \A d \in Clients : /\ at[d] # NoNode => at'[d] # NoNode
                             /\ conn[d] = "none" => conn'[d] = "none" \/ at'[d] # NoNode
                             /\ conn[d] # "none" => conn'[d] # "none"
                             /\ sess[d] # "none" => sess'[d] # "none"
                             /\ conn[d] = "none" => sess'[d] = sess[d]
      BY <3>1, <3>2
    <3>9. \A h \in Serves : \A d \in sessions'[h] \cup copied'[h] :
              d \in sessions[h] \cup copied[h] \/ (d \in Clients /\ sess[d] # "none")
      BY <3>1, <3>2
    <3> QED BY <3>8, <3>9, Went
  <2>2. CASE Accept(c)
    <3>1. /\ UNCHANGED <<at, sessions, copied>> /\ conn[c] = "queued"
          /\ conn' = [conn EXCEPT ![c] = IF Direct(c) THEN "accepted" ELSE "dial"]
          /\ sess' = sess \/ sess' = [sess EXCEPT ![c] = "arrived"]
      BY <2>2 DEF Accept
    <3>2. \A d \in Clients : /\ conn'[d] = IF d = c THEN conn'[c] ELSE conn[d]
                             /\ sess'[d] = sess[d] \/ (d = c /\ sess'[d] = "arrived")
                             /\ conn'[c] # "none"
      BY <3>1 DEF TypeOK
    <3>8. \A d \in Clients : /\ at[d] # NoNode => at'[d] # NoNode
                             /\ conn[d] = "none" => conn'[d] = "none" \/ at'[d] # NoNode
                             /\ conn[d] # "none" => conn'[d] # "none"
                             /\ sess[d] # "none" => sess'[d] # "none"
                             /\ conn[d] = "none" => sess'[d] = sess[d]
      BY <3>1, <3>2
    <3>9. \A h \in Serves : \A d \in sessions'[h] \cup copied'[h] :
              d \in sessions[h] \cup copied[h] \/ (d \in Clients /\ sess[d] # "none")
      BY <3>1, <3>2
    <3> QED BY <3>8, <3>9, Went
  <2>3. CASE DialRemote(c)
    <3>1. /\ UNCHANGED <<at, sessions, copied>> /\ conn[c] = "dial"
          /\ \E v \in {"spliced", "closed"} : conn' = [conn EXCEPT ![c] = v]
          /\ sess' = sess \/ sess' = [sess EXCEPT ![c] = "arrived"]
      BY <2>3 DEF DialRemote
    <3>2. \A d \in Clients : /\ conn'[d] = IF d = c THEN conn'[c] ELSE conn[d]
                             /\ sess'[d] = sess[d] \/ (d = c /\ sess'[d] = "arrived")
                             /\ conn'[c] # "none"
      BY <3>1 DEF TypeOK
    <3>8. \A d \in Clients : /\ at[d] # NoNode => at'[d] # NoNode
                             /\ conn[d] = "none" => conn'[d] = "none" \/ at'[d] # NoNode
                             /\ conn[d] # "none" => conn'[d] # "none"
                             /\ sess[d] # "none" => sess'[d] # "none"
                             /\ conn[d] = "none" => sess'[d] = sess[d]
      BY <3>1, <3>2
    <3>9. \A h \in Serves : \A d \in sessions'[h] \cup copied'[h] :
              d \in sessions[h] \cup copied[h] \/ (d \in Clients /\ sess[d] # "none")
      BY <3>1, <3>2
    <3> QED BY <3>8, <3>9, Went
  <2>4. CASE Register(c)
    <3>1. /\ UNCHANGED <<at, conn, copied>> /\ sess[c] = "arrived"
          /\ sess' = [sess EXCEPT ![c] = "open"]
          /\ sessions' = [sessions EXCEPT ![HubOf(c)] = @ \cup {c}]
      BY <2>4 DEF Register, connVars
    <3>2. conn[c] # "none" /\ \A d \in Clients : sess'[d] = IF d = c THEN "open" ELSE sess[d]
      BY <3>1 DEF TypeOK, Begun
    <3>3. \A n \in Serves : sessions'[n] \subseteq sessions[n] \cup {c}
      BY <3>1 DEF TypeOK
    <3>8. \A d \in Clients : /\ at[d] # NoNode => at'[d] # NoNode
                             /\ conn[d] = "none" => conn'[d] = "none" \/ at'[d] # NoNode
                             /\ conn[d] # "none" => conn'[d] # "none"
                             /\ sess[d] # "none" => sess'[d] # "none"
                             /\ conn[d] = "none" => sess'[d] = sess[d]
      BY <3>1, <3>2, <3>3
    <3>9. \A h \in Serves : \A d \in sessions'[h] \cup copied'[h] :
              d \in sessions[h] \cup copied[h] \/ (d \in Clients /\ sess[d] # "none")
      BY <3>1, <3>2, <3>3
    <3> QED BY <3>8, <3>9, Went
  <2>5. CASE ClientLeaves(c)
    BY <1>1, <2>5 DEF ClientLeaves, hubVars
  <2>6. CASE SessionEnds(c)
    <3>1. /\ UNCHANGED <<at, copied>> /\ sess[c] = "open" /\ Closes({c})
          /\ sessions' = [sessions EXCEPT ![HubOf(c)] = @ \ {c}]
      BY <2>6 DEF SessionEnds
    <3>2. \A d \in Clients : /\ sess'[d] = IF d = c THEN "closed" ELSE sess[d]
                             /\ conn'[d] = conn[d] \/ (d = c /\ conn'[d] = "closed")
      BY <3>1 DEF Closes
    <3>3. \A n \in Serves : sessions'[n] \subseteq sessions[n]
      BY <3>1 DEF TypeOK
    <3>4. conn[c] # "none"
      BY <3>1 DEF Begun
    <3>8. \A d \in Clients : /\ at[d] # NoNode => at'[d] # NoNode
                             /\ conn[d] = "none" => conn'[d] = "none" \/ at'[d] # NoNode
                             /\ conn[d] # "none" => conn'[d] # "none"
                             /\ sess[d] # "none" => sess'[d] # "none"
                             /\ conn[d] = "none" => sess'[d] = sess[d]
      BY <3>1, <3>2, <3>3, <3>4
    <3>9. \A h \in Serves : \A d \in sessions'[h] \cup copied'[h] :
              d \in sessions[h] \cup copied[h] \/ (d \in Clients /\ sess[d] # "none")
      BY <3>1, <3>2, <3>3, <3>4
    <3> QED BY <3>8, <3>9, Went
  <2>7. CASE SpliceEnds(c)
    <3>1. /\ UNCHANGED <<at, sess, sessions, copied>> /\ conn[c] = "spliced"
          /\ conn' = [conn EXCEPT ![c] = "closed"]
      BY <2>7 DEF SpliceEnds, hubVars
    <3>2. \A d \in Clients : conn'[d] = IF d = c THEN "closed" ELSE conn[d]
      BY <3>1 DEF TypeOK
    <3>8. \A d \in Clients : /\ at[d] # NoNode => at'[d] # NoNode
                             /\ conn[d] = "none" => conn'[d] = "none" \/ at'[d] # NoNode
                             /\ conn[d] # "none" => conn'[d] # "none"
                             /\ sess[d] # "none" => sess'[d] # "none"
                             /\ conn[d] = "none" => sess'[d] = sess[d]
      BY <3>1, <3>2
    <3>9. \A h \in Serves : \A d \in sessions'[h] \cup copied'[h] :
              d \in sessions[h] \cup copied[h] \/ (d \in Clients /\ sess[d] # "none")
      BY <3>1, <3>2
    <3> QED BY <3>8, <3>9, Went
  <2> QED BY <1>2, <2>1, <2>2, <2>3, <2>4, <2>5, <2>6, <2>7 DEF ClientStep
<1>3. ASSUME NEW n \in Nodes, NodeStep(n) PROVE Begun'
  <2>1. CASE RemoveFile(n) \/ Listen(n) \/ Start(n) \/ StartFails(n) \/ CloseBegins(n)
    BY <1>1, <2>1 DEF RemoveFile, Arrives, Listen, Start, StartFails, CloseBegins, hubVars, connVars
  <2>2. CASE CloseTailcat(n) \/ HubClosed(n) \/ CloseSocket(n)
    BY <1>1, <2>2 DEF CloseTailcat, HubClosed, CloseSocket, hubVars, connVars
  <2>3. CASE CopySessions(n)
    <3>1. /\ UNCHANGED <<at, conn, sess>>
          /\ copied' = [copied EXCEPT ![n] = sessions[n]]
          /\ sessions' = [sessions EXCEPT ![n] = {}]
      BY <2>3 DEF CopySessions, connVars
    <3>2. \A h \in Serves : /\ sessions'[h] \subseteq sessions[h]
                            /\ copied'[h] \subseteq sessions[h] \cup copied[h]
      BY <3>1 DEF TypeOK
    <3>8. \A d \in Clients : /\ at[d] # NoNode => at'[d] # NoNode
                             /\ conn[d] = "none" => conn'[d] = "none" \/ at'[d] # NoNode
                             /\ conn[d] # "none" => conn'[d] # "none"
                             /\ sess[d] # "none" => sess'[d] # "none"
                             /\ conn[d] = "none" => sess'[d] = sess[d]
      BY <3>1, <3>2
    <3>9. \A h \in Serves : \A d \in sessions'[h] \cup copied'[h] :
              d \in sessions[h] \cup copied[h] \/ (d \in Clients /\ sess[d] # "none")
      BY <3>1, <3>2
    <3> QED BY <3>8, <3>9, Went
  <2>4. CASE CloseCopied(n)
    <3>1. PICK c \in copied[n] : Closes({c}) /\ copied' = [copied EXCEPT ![n] = @ \ {c}]
      BY <2>4 DEF CloseCopied
    <3>2. n \in Serves /\ UNCHANGED <<at, sessions>>
      BY <2>4 DEF CloseCopied, Shape
    <3>3. c \in Clients /\ conn[c] # "none"
      BY <3>1, <3>2 DEF TypeOK, Begun
    <3>4. \A d \in Clients : /\ sess'[d] = IF d = c THEN "closed" ELSE sess[d]
                             /\ conn'[d] = conn[d] \/ (d = c /\ conn'[d] = "closed")
      BY <3>1 DEF Closes
    <3>5. \A h \in Serves : copied'[h] \subseteq copied[h]
      BY <3>1 DEF TypeOK
    <3>8. \A d \in Clients : /\ at[d] # NoNode => at'[d] # NoNode
                             /\ conn[d] = "none" => conn'[d] = "none" \/ at'[d] # NoNode
                             /\ conn[d] # "none" => conn'[d] # "none"
                             /\ sess[d] # "none" => sess'[d] # "none"
                             /\ conn[d] = "none" => sess'[d] = sess[d]
      BY <3>2, <3>3, <3>4, <3>5
    <3>9. \A h \in Serves : \A d \in sessions'[h] \cup copied'[h] :
              d \in sessions[h] \cup copied[h] \/ (d \in Clients /\ sess[d] # "none")
      BY <3>2, <3>3, <3>4, <3>5
    <3> QED BY <3>8, <3>9, Went
  <2>5. CASE CloseListener(n)
    <3>1. /\ UNCHANGED <<at, sess, sessions, copied>>
          /\ \A d \in Clients : \/ conn'[d] = conn[d]
                                \/ conn[d] = "queued" /\ conn'[d] = "closed"
      BY <2>5 DEF CloseListener, hubVars
    <3>8. \A d \in Clients : /\ at[d] # NoNode => at'[d] # NoNode
                             /\ conn[d] = "none" => conn'[d] = "none" \/ at'[d] # NoNode
                             /\ conn[d] # "none" => conn'[d] # "none"
                             /\ sess[d] # "none" => sess'[d] # "none"
                             /\ conn[d] = "none" => sess'[d] = sess[d]
      BY <3>1
    <3>9. \A h \in Serves : \A d \in sessions'[h] \cup copied'[h] :
              d \in sessions[h] \cup copied[h] \/ (d \in Clients /\ sess[d] # "none")
      BY <3>1
    <3> QED BY <3>8, <3>9, Went
  <2>6. CASE Exit(n)
    <3>1. /\ at' = at
          /\ \A d \in Clients :
                /\ conn'[d] = IF at[d] = n THEN "closed" ELSE conn[d]
                /\ sess'[d] = sess[d] \/ (sess[d] # "none" /\ sess'[d] = "closed")
          /\ \A h \in Serves : sessions'[h] \subseteq sessions[h] /\ copied'[h] \subseteq copied[h]
      BY <2>6 DEF Exit
    <3>2. \A d \in Clients : conn[d] = "none" => sess[d] = "none"
      BY DEF Begun
    <3>8. \A d \in Clients : /\ at[d] # NoNode => at'[d] # NoNode
                             /\ conn[d] = "none" => conn'[d] = "none" \/ at'[d] # NoNode
                             /\ conn[d] # "none" => conn'[d] # "none"
                             /\ sess[d] # "none" => sess'[d] # "none"
                             /\ conn[d] = "none" => sess'[d] = sess[d]
      BY <1>0, <3>1, <3>2
    <3>9. \A h \in Serves : \A d \in sessions'[h] \cup copied'[h] :
              d \in sessions[h] \cup copied[h] \/ (d \in Clients /\ sess[d] # "none")
      BY <1>0, <3>1, <3>2
    <3> QED BY <3>8, <3>9, Went
  <2> QED BY <1>3, <2>1, <2>2, <2>3, <2>4, <2>5, <2>6 DEF NodeStep, Closer
<1>4. CASE UNCHANGED vars
  BY <1>1, <1>4 DEF vars, hubVars, connVars
<1> QED BY <1>2, <1>3, <1>4 DEF Next

-----------------------------------------------------------------------------
(* The sessions Hub.Close will close.                                      *)

\* When Hub.Close has copied the table, by the closers that are left.
LEMMA CopiedIs ==
    ASSUME Shape, NEW h \in Serves
    PROVE  Copied(h) <=> life[h] = "copied" \/ closers[h] = <<>> \/ closers[h] = One
<1>1. h \in Nodes
  BY DEF Nodes
<1>2. closers[h] \in {<<>>, One, Two(h), Three(h)}
  BY <1>1 DEF Shape, Closings
<1>3. /\ <<>> # Two(h) /\ <<>> # Three(h) /\ One # Two(h) /\ One # Three(h)
      /\ ~Contains(<<>>, "hub") /\ ~Contains(One, "hub")
      /\ Contains(Two(h), "hub") /\ Contains(Three(h), "hub")
  BY <1>1, ClosingFacts
<1> QED BY <1>2, <1>3 DEF Copied

\* Only the copy itself and the end of the process take a hub from before the
\* copy to after it.
LEMMA StaysUncopied ==
    ASSUME TypeOK, Shape, [Next]_vars, NEW h \in Serves, ~Copied(h),
           life'[h] \in {"copied", "exited"} => life'[h] = life[h]
    PROVE  ~Copied(h)'
<1>1. Shape'
  BY StepShape
<1>2. h \in Nodes /\ One' = One
  BY DEF Nodes, One
<1>3. Copied(h)' <=> life'[h] = "copied" \/ closers'[h] = <<>> \/ closers'[h] = One
  <2>1. closers'[h] \in {<<>>, One, Two(h), Three(h)}
    BY <1>1, <1>2 DEF Shape, Closings, One, Two, Three, Second
  <2>2. /\ <<>> # Two(h) /\ <<>> # Three(h) /\ One # Two(h) /\ One # Three(h)
        /\ ~Contains(<<>>, "hub") /\ ~Contains(One, "hub")
        /\ Contains(Two(h), "hub") /\ Contains(Three(h), "hub")
    BY <1>2, ClosingFacts
  <2>3. Copied(h)' <=> life'[h] = "copied" \/ ~Contains(closers'[h], "hub")
    BY DEF Copied
  <2> QED BY <2>1, <2>2, <2>3
<1>4. /\ life[h] # "copied" /\ closers[h] # <<>> /\ closers[h] # One
      /\ life[h] \notin {"new", "bind", "failed", "closed", "exited"}
  BY <1>2, CopiedIs DEF Shape
<1>5. CASE life'[h] = life[h] /\ closers'[h] = closers[h]
  BY <1>3, <1>4, <1>5
<1>6. CASE \E c \in Clients : ClientStep(c)
  BY <1>5, <1>6 DEF ClientStep, Connect, Accept, DialRemote, Register, ClientLeaves,
                    SessionEnds, SpliceEnds, nodeVars
<1>7. ASSUME NEW n \in Nodes, NodeStep(n), n # h
      PROVE  life'[h] = life[h] /\ closers'[h] = closers[h]
  <2>1. CASE RemoveFile(n) \/ Listen(n) \/ Start(n) \/ StartFails(n) \/ CloseBegins(n)
    BY <1>2, <1>7, <2>1 DEF RemoveFile, Arrives, Listen, Start, StartFails, CloseBegins,
                            Becomes, TypeOK, Shape
  <2>2. CASE CloseTailcat(n) \/ CopySessions(n) \/ HubClosed(n)
    BY <1>2, <1>7, <2>2 DEF CloseTailcat, CopySessions, HubClosed, Becomes, Done, TypeOK, Shape
  <2>3. CASE CloseCopied(n) \/ CloseSocket(n) \/ CloseListener(n)
    BY <1>2, <1>7, <2>3 DEF CloseCopied, CloseSocket, CloseListener, nodeVars, Becomes, Done,
                            TypeOK, Shape
  <2>4. CASE Exit(n)
    BY <1>2, <1>7, <2>4 DEF Exit, Becomes, TypeOK, Shape
  <2> QED BY <1>7, <2>1, <2>2, <2>3, <2>4 DEF NodeStep, Closer
<1>8. ASSUME NodeStep(h) PROVE ~Copied(h)'
  <2>1. /\ Last(Two(h)) = "hub" /\ <<>> # Two(h) /\ One # Two(h)
        /\ <<>> # Three(h) /\ One # Three(h)
    BY <1>2, ClosingFacts
  <2>2. ~(RemoveFile(h) \/ Listen(h) \/ CloseCopied(h) \/ HubClosed(h))
    BY <1>4 DEF RemoveFile, Arrives, Listen, CloseCopied, HubClosed
  <2>7. ~(CopySessions(h) \/ Exit(h))
    BY <1>2, <1>4 DEF CopySessions, Exit, Becomes, TypeOK
  <2>3. ~(CloseSocket(h) \/ CloseListener(h))
    <3>1. Turn(h, "socket") => closers[h] = Two(h)
      BY <1>2, Turns
    <3>2. ~Turn(h, "socket")
      BY <2>1, <3>1 DEF Turn
    <3>3. ~Turn(h, "listener")
      BY <1>2, <1>4, Turns
    <3> QED BY <3>2, <3>3 DEF CloseSocket, CloseListener
  <2>4. CASE StartFails(h) \/ CloseBegins(h)
    <3>1. life' = [life EXCEPT ![h] = "closing"] /\ closers' = closers
      BY <2>4 DEF StartFails, CloseBegins, Becomes
    <3>2. life'[h] = "closing"
      BY <1>2, <3>1 DEF TypeOK
    <3> QED BY <1>3, <1>4, <3>1, <3>2
  <2>5. CASE Start(h)
    <3>1. /\ life[h] = "start" /\ life' = [life EXCEPT ![h] = "up"]
          /\ closers' = closers \/ closers' = [closers EXCEPT ![h] = Append(@, "tailcat")]
      BY <2>5 DEF Start, Becomes
    <3>2. closers[h] = Two(h)
      BY <1>2, <3>1 DEF Shape
    <3>3. Append(closers[h], "tailcat") = Three(h)
      BY <1>2, <3>2, ClosingFacts
    <3>4. life'[h] = "up" /\ (closers'[h] = Two(h) \/ closers'[h] = Three(h))
      BY <1>2, <3>1, <3>2, <3>3 DEF TypeOK, Shape
    <3> QED BY <1>3, <2>1, <3>4
  <2>6. CASE CloseTailcat(h)
    <3>1. Turn(h, "tailcat") /\ Done(h) /\ life' = life
      BY <2>6 DEF CloseTailcat
    <3>2. Front(closers[h]) = Two(h)
      BY <1>2, <3>1, Turns
    <3>3. closers'[h] = Two(h)
      BY <1>2, <3>1, <3>2 DEF Done, Shape
    <3> QED BY <1>3, <1>4, <2>1, <3>1, <3>3
  <2> QED BY <1>8, <2>2, <2>3, <2>4, <2>5, <2>6, <2>7 DEF NodeStep, Closer
<1>9. CASE UNCHANGED vars
  BY <1>5, <1>9 DEF vars, nodeVars
<1> QED BY <1>5, <1>6, <1>7, <1>8, <1>9 DEF Next

\* What takes an open session out of neither the table nor the copy leaves it
\* where Hub.Close finds it.
LEMMA StaysHeld ==
    ASSUME TypeOK, Shape, Begun, Tracked, [Next]_vars,
           NEW d \in Clients, NEW h \in Serves,
           sess[d] = "open", HubOf(d) = h, at'[d] = at[d], late \subseteq late',
           d \in sessions[h] => d \in sessions'[h],
           d \in copied[h] => d \in copied'[h],
           life'[h] \in {"copied", "exited"} => life'[h] = life[h]
    PROVE  Held(d, HubOf(d))'
<1>1. HubOf(d)' = h
  BY DEF HubOf, Direct
<1>2. Held(d, h)
  BY DEF Tracked
<1>3. ~Copied(h) => ~Copied(h)'
  BY StaysUncopied
<1>4. Held(d, h)'
  BY <1>2, <1>3 DEF Held
<1>5. Held(d, HubOf(d))' <=> Held(d, h)'
  BY <1>1 DEF Held, Copied
<1> QED BY <1>4, <1>5

\* Open sessions stay where Hub.Close finds them.
LEMMA StepTracked ==
    ASSUME TypeOK, Shape, Begun, Tracked, [Next]_vars
    PROVE  Tracked'
<1> SUFFICES ASSUME NEW d \in Clients, sess'[d] = "open" PROVE Held(d, HubOf(d))'
  BY DEF Tracked
<1>1. PICK h : h = HubOf(d)
  OBVIOUS
<1>2. sess[d] # "none" => h \in Serves /\ h \in Nodes
  BY <1>1, Connected DEF Nodes
<1>3. ASSUME at'[d] = at[d], sess[d] = "open", UNCHANGED <<sessions, copied, late>>,
             life'[h] \in {"copied", "exited"} => life'[h] = life[h]
      PROVE  Held(d, HubOf(d))'
  BY <1>1, <1>2, <1>3, StaysHeld
<1>4. ASSUME NEW c \in Clients, ClientStep(c) PROVE Held(d, HubOf(d))'
  <2>0. life' = life /\ closers' = closers
    BY <1>4 DEF ClientStep, Connect, Accept, DialRemote, Register, ClientLeaves,
                SessionEnds, SpliceEnds, nodeVars
  <2>1. life'[h] = life[h]
    BY <2>0
  <2>2. CASE Connect(c)
    <3>1. sess[c] = "none" /\ UNCHANGED hubVars /\ \A k \in Clients : k # c => at'[k] = at[k]
      BY <2>2 DEF Connect, Begun, TypeOK
    <3>2. d # c
      BY <3>1 DEF hubVars
    <3> QED BY <1>3, <2>1, <3>1, <3>2 DEF hubVars
  <2>3. CASE Accept(c) \/ DialRemote(c)
    <3>1. /\ UNCHANGED <<at, sessions, copied, late>>
          /\ sess' = sess \/ sess' = [sess EXCEPT ![c] = "arrived"]
      BY <2>3 DEF Accept, DialRemote
    <3>2. sess[d] = "open"
      BY <3>1 DEF TypeOK
    <3> QED BY <1>3, <2>1, <3>1, <3>2
  <2>4. CASE Register(c)
    <3>1. /\ at' = at /\ copied' = copied /\ sess[c] = "arrived"
          /\ sess' = [sess EXCEPT ![c] = "open"]
          /\ sessions' = [sessions EXCEPT ![HubOf(c)] = @ \cup {c}]
          /\ late' = IF Copied(HubOf(c)) THEN late \cup {c} ELSE late
      BY <2>4 DEF Register, connVars
    <3>2. CASE d = c
      <4>1. h \in Serves
        BY <1>2, <3>1, <3>2
      <4>2. d \in sessions'[h] /\ (Copied(h) => d \in late')
        BY <1>1, <3>1, <3>2, <4>1 DEF TypeOK
      <4>3. HubOf(d)' = h /\ (Copied(h)' <=> Copied(h))
        BY <1>1, <2>0, <3>1 DEF HubOf, Direct, Copied
      <4>4. Held(d, h)'
        BY <4>2, <4>3 DEF Held
      <4> QED BY <4>3, <4>4 DEF Held, Copied
    <3>3. CASE d # c
      <4>1. sess[d] = "open" /\ late \subseteq late' /\ h \in Serves
        BY <1>2, <3>1, <3>3 DEF TypeOK
      <4>2. d \in sessions[h] => d \in sessions'[h]
        BY <3>1, <4>1 DEF TypeOK
      <4> QED BY <1>1, <1>2, <2>1, <3>1, <4>1, <4>2, StaysHeld
    <3> QED BY <3>2, <3>3
  <2>5. CASE ClientLeaves(c) \/ SpliceEnds(c)
    <3>1. UNCHANGED <<at, hubVars>>
      BY <2>5 DEF ClientLeaves, SpliceEnds
    <3> QED BY <1>3, <2>1, <3>1 DEF hubVars
  <2>6. CASE SessionEnds(c)
    <3>1. /\ UNCHANGED <<at, copied, late>>
          /\ \A k \in Clients : sess'[k] = IF k = c THEN "closed" ELSE sess[k]
          /\ sessions' = [sessions EXCEPT ![HubOf(c)] = @ \ {c}]
      BY <2>6 DEF SessionEnds, Closes
    <3>2. d # c /\ sess[d] = "open" /\ h \in Serves
      BY <1>2, <3>1
    <3>3. d \in sessions[h] => d \in sessions'[h]
      BY <3>1, <3>2 DEF TypeOK
    <3> QED BY <1>1, <1>2, <2>1, <3>1, <3>2, <3>3, StaysHeld
  <2> QED BY <1>4, <2>2, <2>3, <2>4, <2>5, <2>6 DEF ClientStep
<1>5. ASSUME NEW n \in Nodes, NodeStep(n) PROVE Held(d, HubOf(d))'
  <2>1. ASSUME at' = at, sess' = sess, UNCHANGED <<sessions, copied, late>>,
               NEW l, life' = [life EXCEPT ![n] = l], l \notin {"copied", "exited"}
        PROVE  Held(d, HubOf(d))'
    <3>1. sess[d] = "open" /\ h \in Nodes
      BY <1>2, <2>1
    <3>2. life'[h] \in {"copied", "exited"} => life'[h] = life[h]
      BY <2>1, <3>1 DEF TypeOK
    <3> QED BY <1>3, <2>1, <3>1, <3>2
  <2>2. CASE RemoveFile(n) \/ Listen(n) \/ Start(n) \/ StartFails(n) \/ CloseBegins(n)
    <3>1. /\ at' = at /\ sess' = sess /\ UNCHANGED <<sessions, copied, late>>
          /\ \E l \in {"bind", "start", "failed", "up", "closing"} :
                 life' = [life EXCEPT ![n] = l]
      BY <2>2 DEF RemoveFile, Arrives, Listen, Start, StartFails, CloseBegins, Becomes,
                  hubVars, connVars
    <3> QED BY <2>1, <3>1
  <2>3. CASE CloseTailcat(n) \/ CloseSocket(n)
    <3>1. UNCHANGED <<at, sess, sessions, copied, late, life>>
      BY <2>3 DEF CloseTailcat, CloseSocket, hubVars, connVars
    <3> QED BY <1>3, <3>1
  <2>4. CASE HubClosed(n) \/ CloseListener(n)
    <3>1. /\ at' = at /\ sess' = sess /\ UNCHANGED <<sessions, copied, late>>
          /\ \E l \in {"closing", "closed"} : life' = [life EXCEPT ![n] = l]
      BY <2>4 DEF HubClosed, CloseListener, Becomes, hubVars, connVars
    <3> QED BY <2>1, <3>1
  <2>5. CASE CopySessions(n)
    <3>1. /\ UNCHANGED <<at, sess, late>> /\ life' = [life EXCEPT ![n] = "copied"]
          /\ copied' = [copied EXCEPT ![n] = sessions[n]]
          /\ sessions' = [sessions EXCEPT ![n] = {}]
          /\ life[n] = "closing"
      BY <2>5 DEF CopySessions, Becomes, Turn, connVars
    <3>2. sess[d] = "open" /\ h \in Serves /\ h \in Nodes
      BY <1>2, <3>1
    <3>3. CASE h = n
      <4>1. copied[h] = {}
        BY <3>1, <3>2, <3>3 DEF TypeOK
      <4>2. d \in late \/ d \in sessions[h]
        BY <1>1, <3>2, <4>1 DEF Tracked, Held
      <4>3. d \in late' \/ d \in copied'[h]
        BY <3>1, <3>2, <3>3, <4>2 DEF TypeOK
      <4>4. HubOf(d)' = h
        BY <1>1, <3>1 DEF HubOf, Direct
      <4> QED BY <4>3, <4>4 DEF Held
    <3>4. CASE h # n
      <4>1. /\ sessions'[h] = sessions[h] /\ copied'[h] = copied[h] /\ life'[h] = life[h]
        BY <3>1, <3>2, <3>4 DEF TypeOK
      <4> QED BY <1>1, <3>1, <3>2, <4>1, StaysHeld
    <3> QED BY <3>3, <3>4
  <2>6. CASE CloseCopied(n)
    <3>1. PICK c \in copied[n] : Closes({c}) /\ copied' = [copied EXCEPT ![n] = @ \ {c}]
      BY <2>6 DEF CloseCopied
    <3>2. UNCHANGED <<at, sessions, late, life>>
      BY <2>6 DEF CloseCopied, nodeVars
    <3>3. \A k \in Clients : sess'[k] = IF k = c THEN "closed" ELSE sess[k]
      BY <3>1 DEF Closes
    <3>4. d # c /\ sess[d] = "open" /\ h \in Serves
      BY <1>2, <3>3
    <3>5. d \in copied[h] => d \in copied'[h]
      BY <3>1, <3>4 DEF TypeOK
    <3> QED BY <1>1, <3>2, <3>4, <3>5, StaysHeld
  <2>7. CASE Exit(n)
    <3>1. /\ UNCHANGED <<at, late>> /\ life' = [life EXCEPT ![n] = "exited"]
          /\ \A k \in Clients : sess'[k] = IF sess[k] # "none" /\ HubOf(k) = n
                                           THEN "closed" ELSE sess[k]
          /\ \A k \in Serves : /\ sessions'[k] = IF k = n THEN {} ELSE sessions[k]
                               /\ copied'[k] = IF k = n THEN {} ELSE copied[k]
      BY <2>7 DEF Exit, Becomes
    <3>2. sess[d] = "open" /\ h # n
      BY <1>1, <3>1
    <3>3. h \in Serves /\ h \in Nodes
      BY <1>2, <3>2
    <3>4. life'[h] = life[h] /\ sessions'[h] = sessions[h] /\ copied'[h] = copied[h]
      BY <3>1, <3>2, <3>3 DEF TypeOK
    <3> QED BY <1>1, <3>1, <3>2, <3>3, <3>4, StaysHeld
  <2> QED BY <1>5, <2>2, <2>3, <2>4, <2>5, <2>6, <2>7 DEF NodeStep, Closer
<1>6. CASE UNCHANGED vars
  BY <1>3, <1>6 DEF vars, nodeVars, hubVars, connVars
<1> QED BY <1>4, <1>5, <1>6 DEF Next

-----------------------------------------------------------------------------
(* The types.                                                              *)

\* The variables of nodes and paths.
LEMMA StepNodeTypes ==
    ASSUME TypeOK, [Next]_vars
    PROVE  /\ life' \in [Nodes -> Lives] /\ listener' \in [Nodes -> {"none", "open", "served"}]
           /\ tailcat' \in [Nodes -> BOOLEAN] /\ file' \in [Paths -> Nodes \cup {NoNode}]
           /\ shared' \subseteq Nodes
<1> DEFINE Good == /\ life' \in [Nodes -> Lives]
                   /\ listener' \in [Nodes -> {"none", "open", "served"}]
                   /\ tailcat' \in [Nodes -> BOOLEAN]
                   /\ file' \in [Paths -> Nodes \cup {NoNode}]
                   /\ shared' \subseteq Nodes
<1>1. CASE UNCHANGED <<nodeVars, file, shared>>
  BY <1>1 DEF nodeVars, TypeOK
<1>2. CASE \E c \in Clients : ClientStep(c)
  BY <1>1, <1>2 DEF ClientStep, Connect, Accept, DialRemote, Register, ClientLeaves,
                    SessionEnds, SpliceEnds
<1>3. ASSUME NEW n \in Nodes, NodeStep(n) PROVE Good
  <2> USE DEF TypeOK, Becomes
  <2>0. PathOf \in [Nodes -> Paths]
    BY NodeAssumption
  <2>1. CASE RemoveFile(n)
    BY <2>1 DEF RemoveFile, Arrives, Meets, Lives
  <2>2. CASE Listen(n)
    <3>1. /\ \E l \in {"start", "failed"} : life' = [life EXCEPT ![n] = l]
          /\ \/ listener' = listener
             \/ \E v \in {"served", "open"} : listener' = [listener EXCEPT ![n] = v]
          /\ file' = file \/ file' = [file EXCEPT ![PathOf[n]] = n]
          /\ tailcat' = tailcat /\ shared' = shared
      BY <2>2 DEF Listen
    <3> QED BY <3>1 DEF Lives
  <2>3. CASE Start(n)
    BY <2>3 DEF Start, Lives
  <2>4. CASE StartFails(n) \/ CloseBegins(n)
    BY <2>4 DEF StartFails, CloseBegins, Lives
  <2>5. CASE CloseTailcat(n)
    BY <2>5 DEF CloseTailcat
  <2>6. CASE CopySessions(n)
    BY <2>6 DEF CopySessions, Lives
  <2>7. CASE CloseCopied(n)
    BY <1>1, <2>7 DEF CloseCopied
  <2>8. CASE HubClosed(n)
    BY <2>8 DEF HubClosed, Unlink, Lives
  <2>9. CASE CloseSocket(n)
    BY <2>9 DEF CloseSocket, Unlink
  <2>10. CASE CloseListener(n)
    BY <2>10 DEF CloseListener, Unlink, Lives
  <2>11. CASE Exit(n)
    BY <2>11 DEF Exit, Lives
  <2> QED BY <1>3, <2>1, <2>2, <2>3, <2>4, <2>5, <2>6, <2>7, <2>8, <2>9, <2>10, <2>11
          DEF NodeStep, Closer
<1>4. CASE UNCHANGED vars
  BY <1>1, <1>4 DEF vars
<1> QED BY <1>2, <1>3, <1>4 DEF Next

\* The variables of connections and hubs, and that Hub.Close closes its copy
\* before it goes on.
LEMMA StepClientTypes ==
    ASSUME TypeOK, Shape, Begun, [Next]_vars
    PROVE  /\ sessions' \in [Serves -> SUBSET Clients] /\ copied' \in [Serves -> SUBSET Clients]
           /\ \A h \in Serves : copied'[h] # {} => life'[h] = "copied"
           /\ at' \in [Clients -> Nodes \cup {NoNode}] /\ conn' \in [Clients -> Conns]
           /\ sess' \in [Clients -> {"none", "arrived", "open", "closed"}]
           /\ gone' \subseteq Clients /\ late' \subseteq Clients
<1> DEFINE Good == /\ sessions' \in [Serves -> SUBSET Clients]
                   /\ copied' \in [Serves -> SUBSET Clients]
                   /\ at' \in [Clients -> Nodes \cup {NoNode}] /\ conn' \in [Clients -> Conns]
                   /\ sess' \in [Clients -> {"none", "arrived", "open", "closed"}]
                   /\ gone' \subseteq Clients /\ late' \subseteq Clients
           Emptied == \A h \in Serves : copied'[h] # {} => life'[h] = "copied"
<1>0. \A h \in Serves : h \in Nodes /\ (copied[h] # {} => life[h] = "copied")
  BY DEF TypeOK, Nodes
<1>1. ASSUME UNCHANGED <<hubVars, connVars>> PROVE Good
  BY <1>1 DEF hubVars, connVars, TypeOK
<1>2. ASSUME NEW c \in Clients, ClientStep(c) PROVE Good /\ Emptied
  <2>0. Emptied
    BY <1>0, <1>2 DEF ClientStep, Connect, Accept, DialRemote, Register, ClientLeaves,
                      SessionEnds, SpliceEnds, nodeVars, hubVars
  <2> USE DEF TypeOK
  <2>1. CASE Connect(c)
    <3>1. /\ at' = [at EXCEPT ![c] = file[Target[c]]] /\ UNCHANGED <<hubVars, gone>>
          /\ conn' = [conn EXCEPT ![c] = "queued"]
      BY <2>1 DEF Connect
    <3>2. file[Target[c]] \in Nodes \cup {NoNode}
      BY NodeAssumption
    <3> QED BY <2>0, <3>1, <3>2 DEF hubVars, Conns
  <2>2. CASE Accept(c)
    <3>1. /\ \E v \in {"accepted", "dial"} : conn' = [conn EXCEPT ![c] = v]
          /\ sess' = sess \/ sess' = [sess EXCEPT ![c] = "arrived"]
          /\ UNCHANGED <<sessions, copied, late, at, gone>>
      BY <2>2 DEF Accept
    <3> QED BY <2>0, <3>1 DEF Conns
  <2>3. CASE DialRemote(c)
    <3>1. /\ \E v \in {"spliced", "closed"} : conn' = [conn EXCEPT ![c] = v]
          /\ sess' = sess \/ sess' = [sess EXCEPT ![c] = "arrived"]
          /\ UNCHANGED <<sessions, copied, late, at, gone>>
      BY <2>3 DEF DialRemote
    <3> QED BY <2>0, <3>1 DEF Conns
  <2>4. CASE Register(c)
    BY <2>0, <2>4 DEF Register, connVars
  <2>5. CASE ClientLeaves(c)
    BY <2>0, <2>5 DEF ClientLeaves, hubVars
  <2>6. CASE SessionEnds(c)
    BY <2>0, <2>6 DEF SessionEnds, Closes, Conns
  <2>7. CASE SpliceEnds(c)
    BY <2>0, <2>7 DEF SpliceEnds, hubVars, Conns
  <2> QED BY <1>2, <2>1, <2>2, <2>3, <2>4, <2>5, <2>6, <2>7 DEF ClientStep
<1>3. ASSUME NEW n \in Nodes, NodeStep(n) PROVE Good /\ Emptied
  <2>1. CASE RemoveFile(n) \/ Listen(n) \/ Start(n) \/ StartFails(n) \/ CloseBegins(n)
    <3>1. /\ UNCHANGED <<hubVars, connVars>>
          /\ life[n] # "copied" /\ \E l \in Lives : life' = [life EXCEPT ![n] = l]
      BY <2>1 DEF RemoveFile, Arrives, Listen, Start, StartFails, CloseBegins, Becomes, Lives
    <3>2. Emptied
      BY <1>0, <3>1 DEF hubVars, TypeOK
    <3> QED BY <1>1, <3>1, <3>2
  <2>2. CASE CloseTailcat(n) \/ CloseSocket(n)
    <3>1. UNCHANGED <<hubVars, connVars>> /\ life' = life
      BY <2>2 DEF CloseTailcat, CloseSocket
    <3> QED BY <1>0, <1>1, <3>1 DEF hubVars
  <2>3. CASE CopySessions(n)
    <3>1. /\ UNCHANGED <<at, conn, gone, sess, late>> /\ life' = [life EXCEPT ![n] = "copied"]
          /\ copied' = [copied EXCEPT ![n] = sessions[n]]
          /\ sessions' = [sessions EXCEPT ![n] = {}] /\ n \in Serves
      BY <2>3, Turns DEF CopySessions, Becomes, connVars
    <3>2. Emptied
      BY <1>0, <3>1 DEF TypeOK
    <3>3. Good
      BY <3>1 DEF TypeOK
    <3> QED BY <3>2, <3>3
  <2>4. CASE CloseCopied(n)
    <3>1. PICK c \in copied[n] : Closes({c}) /\ copied' = [copied EXCEPT ![n] = @ \ {c}]
      BY <2>4 DEF CloseCopied
    <3>2. UNCHANGED <<at, sessions, late, life, gone>> /\ life[n] = "copied"
      BY <2>4 DEF CloseCopied, nodeVars
    <3>3. Emptied
      BY <1>0, <3>1, <3>2 DEF TypeOK
    <3>4. Good
      BY <3>1, <3>2 DEF Closes, Conns, TypeOK
    <3> QED BY <3>3, <3>4
  <2>5. CASE HubClosed(n)
    <3>1. /\ UNCHANGED <<hubVars, connVars>> /\ copied[n] = {}
          /\ life' = [life EXCEPT ![n] = "closing"]
      BY <2>5 DEF HubClosed, Becomes
    <3>2. Emptied
      BY <1>0, <3>1 DEF hubVars, TypeOK
    <3> QED BY <1>1, <3>1, <3>2
  <2>6. CASE CloseListener(n)
    <3>1. /\ UNCHANGED <<hubVars, at, gone>> /\ life[n] = "closing"
          /\ life' = [life EXCEPT ![n] = "closed"]
          /\ conn' = [c \in Clients |->
                         IF at[c] = n /\ conn[c] = "queued" THEN "closed" ELSE conn[c]]
      BY <2>6 DEF CloseListener, Turn, Becomes
    <3>2. Emptied
      BY <1>0, <3>1 DEF hubVars, TypeOK
    <3>3. Good
      BY <3>1 DEF hubVars, Conns, TypeOK
    <3> QED BY <3>2, <3>3
  <2>7. CASE Exit(n)
    <3>1. /\ life' = [life EXCEPT ![n] = "exited"] /\ UNCHANGED <<late, at, gone>>
          /\ conn' = [c \in Clients |-> IF at[c] = n THEN "closed" ELSE conn[c]]
          /\ sess' = [c \in Clients |->
                         IF sess[c] # "none" /\ HubOf(c) = n THEN "closed" ELSE sess[c]]
          /\ sessions' = [h \in Serves |-> IF h = n THEN {} ELSE sessions[h]]
          /\ copied' = [h \in Serves |-> IF h = n THEN {} ELSE copied[h]]
      BY <2>7 DEF Exit, Becomes
    <3>2. Emptied
      BY <1>0, <3>1 DEF TypeOK
    <3>3. Good
      BY <3>1 DEF Conns, TypeOK
    <3> QED BY <3>2, <3>3
  <2> QED BY <1>3, <2>1, <2>2, <2>3, <2>4, <2>5, <2>6, <2>7 DEF NodeStep, Closer
<1>4. CASE UNCHANGED vars
  BY <1>0, <1>1, <1>4 DEF vars, nodeVars, hubVars
<1> QED BY <1>2, <1>3, <1>4 DEF Next

-----------------------------------------------------------------------------
(* The theorems.                                                           *)

\* The invariant holds in every reachable state.
LEMMA Reached == Spec => []NodeInv
<1>1. Init => NodeInv
  BY InitInv
<1>2. NodeInv /\ [Next]_vars => NodeInv'
  <2> SUFFICES ASSUME NodeInv, [Next]_vars PROVE NodeInv'
    OBVIOUS
  <2>0. TypeOK /\ Shape /\ Apart /\ FileOf /\ Begun /\ Tracked
    BY DEF NodeInv
  <2>1. Shape'
    BY <2>0, StepShape
  <2>2. \A n \in Nodes : IsPrefix(closers'[n], <<"listener", Second(n), "tailcat">>)
    <3>1. \A n \in Nodes : closers'[n] \in Closings(n)
      BY <2>1 DEF Shape, Closings, One, Two, Three, Second
    <3> QED BY <3>1, ListsPrefix
  <2>3. TypeOK'
    BY <2>0, <2>2, StepNodeTypes, StepClientTypes DEF TypeOK, Second
  <2>4. Apart' /\ FileOf'
    BY <2>0, StepApart, StepFileOf
  <2>5. Begun' /\ Tracked'
    BY <2>0, StepBegun, StepTracked
  <2> QED BY <2>1, <2>3, <2>4, <2>5 DEF NodeInv
<1> QED BY <1>1, <1>2, PTL DEF Spec

\* Every variable keeps its type, and the closers of a node are in the order in
\* which Serve and Join add them (Node.closers).
THEOREM NodeTypes == Spec => []TypeOK
<1>1. NodeInv => TypeOK
  BY DEF NodeInv
<1> QED BY <1>1, Reached, PTL

\* A node that met no live one on its path is found there while it is up, does
\* not fail to listen, and is not found there after Close (addr.Listen, closers).
THEOREM FoundAlone == Spec => []AloneServes
<1>1. NodeInv => AloneServes
  BY DEF NodeInv, FileOf, AloneServes
<1> QED BY <1>1, Reached, PTL

\* When Node.Close has returned, the hub has no open session but those that began
\* after Hub.Close copied its table (Hub.Close, ServeConn).
THEOREM ClosedForAll == Spec => []CloseEndsSessions
<1>1. NodeInv => CloseEndsSessions
  <2> SUFFICES ASSUME NodeInv, NEW n \in Serves, life[n] = "closed",
                      NEW c \in Clients, sess[c] = "open", HubOf(c) = n
               PROVE  c \in late
    BY DEF CloseEndsSessions
  <2>1. n \in Nodes /\ closers[n] = <<>> /\ copied[n] = {}
    BY DEF NodeInv, Shape, TypeOK, Nodes
  <2>2. Copied(n)
    BY <2>1, CopiedIs DEF NodeInv
  <2>3. Held(c, n)
    BY DEF NodeInv, Tracked
  <2> QED BY <2>1, <2>2, <2>3 DEF Held
<1> QED BY <1>1, Reached, PTL
==============================================================================
