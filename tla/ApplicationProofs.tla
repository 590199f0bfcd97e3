-------------------------- MODULE ApplicationProofs -------------------------
(***************************************************************************)
(* What the application can rely on. When it builds a server, for names of *)
(* any length, any number of handlers and of threads: calls reach the      *)
(* handlers that were registered for them. When it uses the unary Client,  *)
(* for every set of strategies and timeouts: the backoff that is           *)
(* documented, each attempt has a context of its own with the deadline of  *)
(* its Write, and a limited strategy limits the attempts. When its threads *)
(* share a BlockingQueue, for any number of them and any size: no wakeup   *)
(* is lost, the bound is kept, and the queue implements Fifo.              *)
(***************************************************************************)
EXTENDS Client, Builder, BlockingQueue, FiniteSetTheorems, WellFoundedInduction, TLAPS

-----------------------------------------------------------------------------
(* Building a server: names *)

\* A set of natural numbers that is not empty has a least one.
LEMMA LeastOf ==
  ASSUME NEW S \in SUBSET Nat, S # {}
  PROVE  Min(S) \in S /\ \A n \in S : Min(S) <= n
<1>1. PICK m \in S : \A n \in S : <<n, m>> \notin OpToRel(<, Nat)
  BY Zenon, WFMin, NatLessThanWellFounded
<1>2. \A n \in S : m <= n
  <2>1. ASSUME NEW n \in S, n < m PROVE FALSE
    <3>1. <<n, m>> \in Nat \X Nat /\ <<n, m>>[1] < <<n, m>>[2]
      BY <2>1
    <3> QED BY Zenon, <1>1, <3>1 DEF OpToRel
  <2> QED BY <2>1
<1> QED BY <1>2 DEF Min

\* std::getline reads as far as the first slash, or to the end.
LEMMA FirstSlashIs ==
  ASSUME NEW s \in Seq(Characters)
  PROVE  /\ FirstSlash(s) \in 1 .. Len(s) + 1
         /\ FirstSlash(s) <= Len(s) => s[FirstSlash(s)] = "/"
         /\ \A i \in 1 .. FirstSlash(s) - 1 : s[i] # "/"
<1> DEFINE t == s \o <<"/">>
           I == {i \in 1 .. Len(t) : t[i] = "/"}
<1>1. /\ Len(t) = Len(s) + 1 /\ Len(s) \in Nat
      /\ t[Len(s) + 1] = "/" /\ \A i \in 1 .. Len(s) : t[i] = s[i]
  OBVIOUS
<1>2. I \in SUBSET Nat /\ Len(s) + 1 \in I
  BY <1>1
<1>3. FirstSlash(s) = Min(I)
  BY Zenon, <1>2 DEF FirstSlash, SelectInSeq
<1> HIDE DEF t
<1>4. Min(I) \in I /\ \A n \in I : Min(I) <= n
  <2> HIDE DEF I
  <2> QED BY Zenon, <1>2, LeastOf
<1>5. FirstSlash(s) \in 1 .. Len(s) + 1 /\ t[FirstSlash(s)] = "/"
  BY Zenon, <1>1, <1>3, <1>4
<1>6. ASSUME NEW i \in 1 .. FirstSlash(s) - 1 PROVE s[i] # "/"
  <2>1. i \in 1 .. Len(s) /\ ~(FirstSlash(s) <= i)
    BY <1>1, <1>5
  <2>2. i \notin I
    BY Zenon, <1>3, <1>4, <2>1
  <2>3. i \in 1 .. Len(t) /\ t[i] = s[i]
    BY <1>1, <2>1
  <2> QED BY Zenon, <2>2, <2>3
<1>7. FirstSlash(s) <= Len(s) => s[FirstSlash(s)] = "/"
  <2>1. FirstSlash(s) <= Len(s) => FirstSlash(s) \in 1 .. Len(s)
    BY <1>1, <1>5
  <2> QED BY Zenon, <1>1, <1>5, <2>1
<1> QED BY Zenon, <1>5, <1>6, <1>7

\* What getline gives and what it leaves.
LEMMA LineIs ==
  ASSUME NEW s \in Seq(Characters)
  PROVE  LET k == FirstSlash(s)
         IN
         /\ k \in 1 .. Len(s) + 1
         /\ k <= Len(s) => s[k] = "/"
         /\ Line(s) \in Seq(Characters) /\ Len(Line(s)) = k - 1
         /\ \A i \in 1 .. k - 1 : Line(s)[i] = s[i] /\ Line(s)[i] # "/"
         /\ AfterLine(s) \in Seq(Characters)
         /\ Len(AfterLine(s)) = IF k <= Len(s) THEN Len(s) - k ELSE 0
         /\ \A i \in 1 .. Len(s) - k : AfterLine(s)[i] = s[k + i]
<1> DEFINE k == FirstSlash(s)
<1>1. /\ k \in 1 .. Len(s) + 1
      /\ k <= Len(s) => s[k] = "/"
      /\ \A i \in 1 .. k - 1 : s[i] # "/"
  BY Zenon, FirstSlashIs
<1>2. Line(s) = SubSeq(s, 1, k - 1) /\ AfterLine(s) = SubSeq(s, k + 1, Len(s))
  BY Zenon DEF Line, AfterLine
<1> HIDE DEF k
<1>3. Line(s) \in Seq(Characters) /\ Len(Line(s)) = k - 1 /\ \A i \in 1 .. k - 1 : Line(s)[i] = s[i]
  BY <1>1, <1>2
<1>4. /\ AfterLine(s) \in Seq(Characters)
      /\ Len(AfterLine(s)) = IF k <= Len(s) THEN Len(s) - k ELSE 0
      /\ \A i \in 1 .. Len(s) - k : AfterLine(s)[i] = s[k + i]
  BY <1>1, <1>2
<1> QED BY Zenon, <1>1, <1>3, <1>4 DEF k

\* What a concatenation has at its places.
LEMMA ConcatIs ==
  ASSUME NEW s \in Seq(Characters), NEW t \in Seq(Characters), NEW a, NEW b,
         Len(s) = a, Len(t) = b
  PROVE  /\ s \o t \in Seq(Characters) /\ Len(s \o t) = a + b
         /\ \A i \in 1 .. a : (s \o t)[i] = s[i]
         /\ \A i \in 1 .. b : (s \o t)[a + i] = t[i]
OBVIOUS

\* A sequence starts with those that have the same characters at their places.
LEMMA PrefixIs ==
  ASSUME NEW s \in Seq(Characters), NEW t \in Seq(Characters), Len(s) <= Len(t),
         \A i \in 1 .. Len(s) : s[i] = t[i]
  PROVE  IsPrefix(s, t)
<1>1. SubSeq(s, 1, Len(s)) = SubSeq(t, 1, Len(s))
  OBVIOUS
<1> QED BY Zenon, <1>1 DEF IsPrefix

\* A sequence with nothing but a slash.
LEMMA SlashIs ==
  /\ <<"/">> \in Seq(Characters) /\ Len(<<"/">>) = 1 /\ <<"/">>[1] = "/"
  /\ 1 \in 1 .. 1
BY CharactersAssumption

\* A name that passes the CHECKs of ParseMethodFullName has the documented
\* structure, with the service and the method that it returns.
LEMMA ParsedIsNamed ==
  ASSUME NEW name \in Seq(Characters), NameIsValid(name)
  PROVE  IsNamed(name, ParseMethodFullName(name).service, ParseMethodFullName(name).method)
<1> DEFINE t == Tail(name)
           u == AfterLine(t)
           service == Line(t)
           method == Line(u)
           k == FirstSlash(t)
           m == FirstSlash(u)
           head == <<"/">> \o service
           stem == head \o <<"/">>
           structure == stem \o method
<1>1. /\ ParseMethodFullName(name).service = service
      /\ ParseMethodFullName(name).method = method
      /\ name # <<>> /\ name[1] = "/" /\ service # <<>> /\ method # <<>>
  BY Zenon DEF NameIsValid, ParseMethodFullName
<1>2. /\ t \in Seq(Characters) /\ Len(name) \in Nat /\ Len(t) = Len(name) - 1
      /\ \A i \in 1 .. Len(t) : t[i] = name[i + 1]
  BY <1>1
<1> HIDE DEF t
<1>3. /\ k \in 1 .. Len(t) + 1
      /\ k <= Len(t) => t[k] = "/"
      /\ service \in Seq(Characters) /\ Len(service) = k - 1
      /\ \A i \in 1 .. k - 1 : service[i] = t[i] /\ service[i] # "/"
      /\ u \in Seq(Characters)
      /\ Len(u) = IF k <= Len(t) THEN Len(t) - k ELSE 0
      /\ \A i \in 1 .. Len(t) - k : u[i] = t[k + i]
  BY Zenon, <1>2, LineIs
<1> HIDE DEF u, service, k
<1>4. /\ m \in 1 .. Len(u) + 1
      /\ m <= Len(u) => u[m] = "/"
      /\ method \in Seq(Characters) /\ Len(method) = m - 1
      /\ \A i \in 1 .. m - 1 : method[i] = u[i] /\ method[i] # "/"
  BY Zenon, <1>3, LineIs
<1> HIDE DEF method, m
<1>5. m > 1 /\ k <= Len(t) /\ k + m <= Len(name)
  <2>1. Len(method) # 0
    BY <1>1, <1>4
  <2> QED BY <1>2, <1>3, <1>4, <2>1
<1>6. /\ <<"/">> \in Seq(Characters) /\ Len(<<"/">>) = 1 /\ <<"/">>[1] = "/"
      /\ 1 \in 1 .. 1
  BY Zenon, SlashIs
<1>7. /\ head \in Seq(Characters) /\ Len(head) = k /\ head[1] = "/"
      /\ \A i \in 1 .. k - 1 : head[1 + i] = service[i]
  <2>1. /\ head \in Seq(Characters) /\ Len(head) = 1 + (k - 1) /\ head[1] = "/"
        /\ \A i \in 1 .. k - 1 : head[1 + i] = service[i]
    BY <1>3, <1>6, ConcatIs
  <2>2. 1 + (k - 1) = k
    BY <1>3
  <2> QED BY Zenon, <2>1, <2>2
<1> HIDE DEF head
<1>8. /\ stem \in Seq(Characters) /\ Len(stem) = k + 1
      /\ stem[k + 1] = "/" /\ \A i \in 1 .. k : stem[i] = head[i]
  BY <1>6, <1>7, ConcatIs
<1> HIDE DEF stem
<1>9. /\ structure \in Seq(Characters) /\ Len(structure) = (k + 1) + (m - 1)
      /\ \A i \in 1 .. k + 1 : structure[i] = stem[i]
      /\ \A i \in 1 .. m - 1 : structure[(k + 1) + i] = method[i]
  <2>1. method \in Seq(Characters) /\ Len(method) = m - 1
    BY Zenon, <1>4
  <2>2. stem \in Seq(Characters) /\ Len(stem) = k + 1
    BY Zenon, <1>8
  <2>3. /\ structure \in Seq(Characters) /\ Len(structure) = Len(stem) + Len(method)
        /\ \A i \in 1 .. Len(stem) : structure[i] = stem[i]
        /\ \A i \in 1 .. Len(method) : structure[Len(stem) + i] = method[i]
    BY <2>1, <2>2
  <2> HIDE DEF structure
  <2> QED BY Zenon, <2>1, <2>2, <2>3
<1>10. Len(structure) = k + m
  BY <1>3, <1>4, <1>9
<1> HIDE DEF structure
<1>11. \A i \in 1 .. k + m : structure[i] = name[i]
  <2>1. structure[1] = name[1]
    <3>1. 1 \in 1 .. k /\ 1 \in 1 .. k + 1
      BY <1>3
    <3> QED BY Zenon, <1>1, <1>7, <1>8, <1>9, <3>1
  <2>2. ASSUME NEW j \in 1 .. k - 1 PROVE structure[1 + j] = name[j + 1]
    <3>1. 1 + j \in 1 .. k /\ 1 + j \in 1 .. k + 1 /\ j \in 1 .. Len(t)
      BY <1>2, <1>3, <1>5
    <3>2. structure[1 + j] = stem[1 + j] /\ stem[1 + j] = head[1 + j] /\ head[1 + j] = service[j]
      BY Zenon, <1>7, <1>8, <1>9, <3>1
    <3>3. service[j] = t[j] /\ t[j] = name[j + 1]
      BY Zenon, <1>2, <1>3, <3>1
    <3> QED BY Zenon, <3>2, <3>3
  <2>3. structure[k + 1] = name[k + 1]
    <3>1. k + 1 \in 1 .. k + 1 /\ k \in 1 .. Len(t)
      BY <1>2, <1>3, <1>5
    <3>2. structure[k + 1] = stem[k + 1] /\ stem[k + 1] = "/"
      BY Zenon, <1>8, <1>9, <3>1
    <3>3. t[k] = "/" /\ t[k] = name[k + 1]
      BY Zenon, <1>2, <1>3, <1>5, <3>1
    <3> QED BY Zenon, <3>2, <3>3
  <2>4. ASSUME NEW j \in 1 .. m - 1 PROVE structure[(k + 1) + j] = name[(k + j) + 1]
    <3>1. j \in 1 .. Len(t) - k /\ k + j \in 1 .. Len(t)
      BY <1>2, <1>3, <1>4, <1>5
    <3>2. structure[(k + 1) + j] = method[j] /\ method[j] = u[j]
      BY Zenon, <1>4, <1>9
    <3>3. u[j] = t[k + j] /\ t[k + j] = name[(k + j) + 1]
      BY Zenon, <1>2, <1>3, <3>1
    <3> QED BY Zenon, <3>2, <3>3
  <2> TAKE i \in 1 .. k + m
  <2>5. CASE i \in 2 .. k
    <3>1. i - 1 \in 1 .. k - 1 /\ 1 + (i - 1) = i /\ (i - 1) + 1 = i
      BY <1>3, <2>5
    <3> QED BY Zenon, <2>2, <3>1
  <2>6. CASE i \in k + 2 .. k + m
    <3>1. /\ i - k - 1 \in 1 .. m - 1
          /\ (k + 1) + (i - k - 1) = i /\ (k + (i - k - 1)) + 1 = i
      BY <1>3, <1>4, <2>6
    <3> QED BY Zenon, <2>4, <3>1
  <2>7. i = 1 \/ i \in 2 .. k \/ i = k + 1 \/ i \in k + 2 .. k + m
    BY <1>3, <1>4
  <2> QED BY Zenon, <2>1, <2>3, <2>5, <2>6, <2>7
<1>12. IsPrefix(structure, name)
  BY Zenon, <1>5, <1>9, <1>10, <1>11, PrefixIs
<1>13. Len(name) > Len(structure) => name[Len(structure) + 1] = "/"
  <2> SUFFICES ASSUME Len(name) > k + m PROVE name[(k + m) + 1] = "/"
    BY Zenon, <1>10
  <2>1. name[(k + m) + 1] = t[k + m] /\ t[k + m] = u[m] /\ m <= Len(u)
    BY <1>2, <1>3, <1>4, <1>5
  <2> QED BY Zenon, <1>4, <2>1
<1>14. "/" \notin ToSet(service) \cup ToSet(method)
  BY <1>3, <1>4 DEF ToSet
<1>15. structure = <<"/">> \o service \o <<"/">> \o method
  BY Zenon DEF structure, stem, head
<1> QED BY Zenon, <1>1, <1>12, <1>13, <1>14, <1>15 DEF IsNamed

\* A map is iterated over all of its keys.
LEMMA MapOrderIs ==
  ASSUME NEW S, IsFiniteSet(S)
  PROVE  /\ \A i \in DOMAIN MapOrder(S) : MapOrder(S)[i] \in S
         /\ \A x \in S : \E i \in DOMAIN MapOrder(S) : MapOrder(S)[i] = x
<1> DEFINE n == Cardinality(S)
           f == MapOrder(S)
<1>1. n \in Nat /\ ExistsBijection(1 .. n, S)
  BY Zenon, FS_CardinalityType
<1>2. \E g \in [1 .. n -> S] : IsInjective(g)
  BY Zenon, <1>1 DEF ExistsBijection, Bijection, Injection
<1>3. f \in [1 .. n -> S] /\ IsInjective(f)
  BY Zenon, <1>2 DEF MapOrder, SetToSeq
<1> HIDE DEF f
<1>4. f \in Injection(1 .. n, S)
  BY Zenon, <1>3 DEF Injection
<1>5. Cardinality(1 .. n) = n
  BY <1>1, FS_Interval
<1>6. f \in Surjection(1 .. n, S)
  BY Zenon, <1>4, <1>5, FS_Injection
<1>7. \A x \in S : \E i \in 1 .. n : f[i] = x
  BY Zenon, <1>6 DEF Surjection
<1> QED BY Zenon, <1>3, <1>7 DEF f

-----------------------------------------------------------------------------
(* Building a server: handlers, services and listeners *)

\* The slot under which RegisterHandler files h.
SlotOf(h) == ParseMethodFullName(h.name)

\* The Rpc of a handler at a completion queue: its name, itself, its type and the queue.
ListenerOf(h, q) == [name |-> h.name, handler |-> h, type |-> StreamType(h), queue |-> q]

\* rpc_handlers_ has handlers with valid names at the slots that these say.
HandlersInv ==
  /\ IsFiniteSet(DOMAIN rpc_handlers)
  /\ \A slot \in DOMAIN rpc_handlers :
       LET h == rpc_handlers[slot]
       IN  h \in HandlerTypes /\ NameIsValid(h.name) /\ SlotOf(h) = slot

\* A registered handler is filed, or one that came first is; no others are.
RegisteredInv ==
  /\ registered \in Seq(HandlerTypes)
  /\ \A i \in DOMAIN registered :
       /\ NameIsValid(registered[i].name)
       /\ SlotOf(registered[i]) \in DOMAIN rpc_handlers
       /\ \E j \in 1 .. i : rpc_handlers[SlotOf(registered[i])] = registered[j]
  /\ \A slot \in DOMAIN rpc_handlers :
       \E i \in DOMAIN registered : rpc_handlers[slot] = registered[i]

\* The services have the handlers that were filed, and no others.
ServicesInv ==
  /\ phase = "building" => services = <<>>
  /\ \A s \in DOMAIN services : \A i \in DOMAIN services[s] :
       \E slot \in DOMAIN rpc_handlers : services[s][i] = rpc_handlers[slot]
  /\ phase \in {"built", "serving", "unserved", "stopped"} =>
       \A slot \in DOMAIN rpc_handlers :
         /\ slot.service \in DOMAIN services
         /\ \E i \in DOMAIN services[slot.service] :
              services[slot.service][i] = rpc_handlers[slot]

\* Rpcs listen for the handlers that were filed, on every queue, and no others.
ListenersInv ==
  /\ phase \in {"building", "built"} => listeners = {}
  /\ \A l \in listeners :
       \E slot \in DOMAIN rpc_handlers, q \in CompletionQueues :
         l = ListenerOf(rpc_handlers[slot], q)
  /\ Serving =>
       \A slot \in DOMAIN rpc_handlers, q \in CompletionQueues :
         ListenerOf(rpc_handlers[slot], q) \in listeners

BuilderInv ==
  HandlersInv /\ RegisteredInv /\ ServicesInv /\ ListenersInv /\ HandlersContextIsLive

\* A handler type has one of the names.
LEMMA NameOfHandler ==
  ASSUME NEW h \in HandlerTypes PROVE h.name \in Names
BY DEF HandlerTypes

\* A handler that was filed has a name with the structure that its slot says.
LEMMA FiledIsNamed ==
  ASSUME HandlersInv, NEW slot \in DOMAIN rpc_handlers
  PROVE  IsNamed(rpc_handlers[slot].name, slot.service, slot.method)
<1>1. /\ rpc_handlers[slot] \in HandlerTypes /\ NameIsValid(rpc_handlers[slot].name)
      /\ ParseMethodFullName(rpc_handlers[slot].name) = slot
  BY Zenon DEF HandlersInv, SlotOf
<1>2. rpc_handlers[slot].name \in Seq(Characters)
  BY Zenon, <1>1, NameOfHandler, NamesAssumption
<1>3. IsNamed(rpc_handlers[slot].name, ParseMethodFullName(rpc_handlers[slot].name).service,
              ParseMethodFullName(rpc_handlers[slot].name).method)
  BY Zenon, <1>1, <1>2, ParsedIsNamed
<1> QED BY Zenon, <1>1, <1>3

\* RegisterHandler files a handler at a free slot.
LEMMA RegisterInv ==
  ASSUME BuilderInv, NEW h \in HandlerTypes, RegisterHandler(h), NameIsValid(h.name)
  PROVE  BuilderInv'
<1> DEFINE slot == SlotOf(h)
           handlers == [x \in DOMAIN rpc_handlers \cup {slot} |->
                         IF x \in DOMAIN rpc_handlers THEN rpc_handlers[x] ELSE h]
<1>1. /\ phase = "building"
      /\ rpc_handlers' = handlers
      /\ registered' = Append(registered, h)
      /\ UNCHANGED <<options, services, listeners, phase, contextVars>>
  BY Zenon DEF RegisterHandler, Emplace, SlotOf
<1>2. DOMAIN handlers = DOMAIN rpc_handlers \cup {slot}
  BY Zenon
<1>3. \A x \in DOMAIN rpc_handlers : handlers[x] = rpc_handlers[x]
  BY Zenon
<1>4. slot \notin DOMAIN rpc_handlers => handlers[slot] = h
  BY Zenon
<1> HIDE DEF handlers
<1>5. HandlersInv'
  <2>1. IsFiniteSet(DOMAIN handlers)
    <3>1. IsFiniteSet(DOMAIN rpc_handlers)
      BY Zenon DEF BuilderInv, HandlersInv
    <3>2. IsFiniteSet(DOMAIN rpc_handlers \cup {slot})
      BY Zenon, <3>1, FS_AddElement
    <3> QED BY Zenon, <1>2, <3>2
  <2> QED BY Zenon, <1>1, <1>2, <1>3, <1>4, <2>1 DEF BuilderInv, HandlersInv
<1>6. RegisteredInv'
  <2>1. /\ registered \in Seq(HandlerTypes) /\ registered' \in Seq(HandlerTypes)
        /\ DOMAIN registered = 1 .. Len(registered) /\ Len(registered) \in Nat
        /\ DOMAIN registered' = 1 .. Len(registered) + 1
        /\ \A i \in DOMAIN registered : registered'[i] = registered[i]
        /\ registered'[Len(registered) + 1] = h
    BY <1>1 DEF BuilderInv, RegisteredInv
  <2>2. ASSUME NEW i \in DOMAIN registered
        PROVE  /\ NameIsValid(registered'[i].name)
               /\ SlotOf(registered'[i]) \in DOMAIN handlers
               /\ \E j \in 1 .. i : handlers[SlotOf(registered'[i])] = registered'[j]
    <3>1. /\ NameIsValid(registered[i].name) /\ SlotOf(registered[i]) \in DOMAIN rpc_handlers
          /\ registered'[i] = registered[i]
      BY Zenon, <2>1 DEF BuilderInv, RegisteredInv
    <3>2. PICK j \in 1 .. i : rpc_handlers[SlotOf(registered[i])] = registered[j]
      BY Zenon DEF BuilderInv, RegisteredInv
    <3>3. j \in DOMAIN registered
      BY <2>1
    <3>4. handlers[SlotOf(registered'[i])] = registered'[j]
      BY Zenon, <1>3, <2>1, <3>1, <3>2, <3>3
    <3> QED BY Zenon, <1>2, <3>1, <3>4
  <2> DEFINE n == Len(registered) + 1
  <2>4. \E j \in 1 .. n : handlers[slot] = registered'[j]
    <3>1. CASE slot \in DOMAIN rpc_handlers
      <4>1. PICK i \in DOMAIN registered : rpc_handlers[slot] = registered[i]
        BY Zenon, <3>1 DEF BuilderInv, RegisteredInv
      <4>2. i \in 1 .. n
        BY <2>1
      <4> QED BY Zenon, <1>3, <2>1, <3>1, <4>1, <4>2
    <3>2. CASE slot \notin DOMAIN rpc_handlers
      <4>1. n \in 1 .. n
        BY <2>1
      <4> QED BY Zenon, <1>4, <2>1, <3>2, <4>1
    <3> QED BY Zenon, <3>1, <3>2
  <2>5. \A i \in DOMAIN registered' : i \in DOMAIN registered \/ i = n
    BY <2>1
  <2>6. n \in DOMAIN registered' /\ registered'[n] = h
    BY <2>1
  <2>7. ASSUME NEW x \in DOMAIN handlers
        PROVE  \E i \in DOMAIN registered' : handlers[x] = registered'[i]
    <3>1. CASE x \in DOMAIN rpc_handlers
      <4>1. PICK i \in DOMAIN registered : rpc_handlers[x] = registered[i]
        BY Zenon, <3>1 DEF BuilderInv, RegisteredInv
      <4>2. i \in DOMAIN registered'
        BY <2>1
      <4> QED BY Zenon, <1>3, <2>1, <3>1, <4>1, <4>2
    <3>2. CASE x \notin DOMAIN rpc_handlers
      BY Zenon, <1>2, <1>4, <2>6, <3>2
    <3> QED BY Zenon, <3>1, <3>2
  <2>8. ASSUME NEW i \in DOMAIN registered'
        PROVE  /\ NameIsValid(registered'[i].name)
               /\ SlotOf(registered'[i]) \in DOMAIN handlers
               /\ \E j \in 1 .. i : handlers[SlotOf(registered'[i])] = registered'[j]
    <3>1. CASE i \in DOMAIN registered
      BY Zenon, <2>2, <3>1
    <3>2. CASE i = n
      <4> HIDE DEF n
      <4> QED BY Zenon, <1>2, <2>4, <2>6, <3>2
    <3> QED BY Zenon, <2>5, <3>1, <3>2
  <2> QED BY Zenon, <1>1, <2>1, <2>7, <2>8 DEF RegisteredInv
<1>7. ServicesInv' /\ ListenersInv' /\ HandlersContextIsLive'
  <2>1. services' = <<>> /\ listeners' = {} /\ phase' = "building"
    BY Zenon, <1>1 DEF BuilderInv, ServicesInv, ListenersInv
  <2>2. DOMAIN <<>> = {}
    OBVIOUS
  <2> QED BY Zenon, <2>1, <2>2 DEF ServicesInv, ListenersInv, HandlersContextIsLive, Serving
<1> QED BY Zenon, <1>5, <1>6, <1>7 DEF BuilderInv

\* Steps that leave handlers and services alone, from a server that is built to one
\* that is, or to the end.
LEMMA ServicesKept ==
  ASSUME ServicesInv, rpc_handlers' = rpc_handlers, services' = services,
         phase' = "building" => phase = "building",
         phase' \in {"built", "serving", "unserved", "stopped"} => phase \in {"built", "serving", "unserved", "stopped"}
  PROVE  ServicesInv'
<1>1. phase' = "building" => services' = <<>>
  BY Zenon DEF ServicesInv
<1>2. \A s \in DOMAIN services' : \A i \in DOMAIN services'[s] :
        \E slot \in DOMAIN rpc_handlers' : services'[s][i] = rpc_handlers'[slot]
  <2>1. \A s \in DOMAIN services : \A i \in DOMAIN services[s] :
          \E slot \in DOMAIN rpc_handlers : services[s][i] = rpc_handlers[slot]
    BY Zenon DEF ServicesInv
  <2> QED BY <2>1
<1>3. phase' \in {"built", "serving", "unserved", "stopped"} =>
        \A slot \in DOMAIN rpc_handlers' :
          /\ slot.service \in DOMAIN services'
          /\ \E i \in DOMAIN services'[slot.service] :
               services'[slot.service][i] = rpc_handlers'[slot]
  BY Zenon DEF ServicesInv
<1> QED BY Zenon, <1>1, <1>2, <1>3 DEF ServicesInv

\* Build gives every service the handlers that are filed for it, in the order in
\* which it iterates over them.
LEMMA BuildInv ==
  ASSUME BuilderInv, Build
  PROVE  BuilderInv'
<1> DEFINE Of(s) == {slot \in DOMAIN rpc_handlers : slot.service = s}
           Order(s) == MapOrder(Of(s))
<1>1. /\ DOMAIN services' = {slot.service : slot \in DOMAIN rpc_handlers}
      /\ \A s \in DOMAIN services' :
           services'[s] = [i \in DOMAIN Order(s) |-> rpc_handlers[Order(s)[i]]]
      /\ phase' = "built"
      /\ UNCHANGED <<registered, rpc_handlers, listeners, contextVars>>
  BY Zenon DEF Build
<1>2. ASSUME NEW s
      PROVE  /\ \A i \in DOMAIN Order(s) : Order(s)[i] \in Of(s)
             /\ \A x \in Of(s) : \E i \in DOMAIN Order(s) : Order(s)[i] = x
  <2>1. Of(s) \in SUBSET DOMAIN rpc_handlers /\ IsFiniteSet(DOMAIN rpc_handlers)
    BY Zenon DEF BuilderInv, HandlersInv
  <2>2. IsFiniteSet(Of(s))
    BY Zenon, <2>1, FS_Subset
  <2> QED BY Zenon, <2>2, MapOrderIs
<1> HIDE DEF Order
<1>3. ASSUME NEW s \in DOMAIN services', NEW i \in DOMAIN services'[s]
      PROVE  \E slot \in DOMAIN rpc_handlers : services'[s][i] = rpc_handlers[slot]
  <2>1. services'[s] = [j \in DOMAIN Order(s) |-> rpc_handlers[Order(s)[j]]]
    BY Zenon, <1>1
  <2>2. i \in DOMAIN Order(s) /\ services'[s][i] = rpc_handlers[Order(s)[i]]
    BY Zenon, <2>1
  <2>3. Order(s)[i] \in DOMAIN rpc_handlers
    BY Zenon, <1>2, <2>2
  <2> QED BY Zenon, <2>2, <2>3
<1>4. ASSUME NEW slot \in DOMAIN rpc_handlers
      PROVE  /\ slot.service \in DOMAIN services'
             /\ \E i \in DOMAIN services'[slot.service] :
                  services'[slot.service][i] = rpc_handlers[slot]
  <2>1. slot \in Of(slot.service)
    BY Zenon
  <2>2. PICK i \in DOMAIN Order(slot.service) : Order(slot.service)[i] = slot
    BY Zenon, <1>2, <2>1
  <2>3. slot.service \in DOMAIN services'
    BY Zenon, <1>1
  <2>4. services'[slot.service] =
          [j \in DOMAIN Order(slot.service) |-> rpc_handlers[Order(slot.service)[j]]]
    BY Zenon, <1>1, <2>3
  <2>5. /\ i \in DOMAIN services'[slot.service]
        /\ services'[slot.service][i] = rpc_handlers[Order(slot.service)[i]]
    BY Zenon, <2>4
  <2> QED BY Zenon, <2>2, <2>3, <2>5
<1>5. ServicesInv'
  BY Zenon, <1>1, <1>3, <1>4 DEF ServicesInv
<1>6. HandlersInv' /\ RegisteredInv'
  BY Zenon, <1>1 DEF BuilderInv, HandlersInv, RegisteredInv
<1>7. ListenersInv' /\ HandlersContextIsLive'
  BY Zenon, <1>1 DEF BuilderInv, ListenersInv, HandlersContextIsLive, Serving, Build
<1> QED BY Zenon, <1>5, <1>6, <1>7 DEF BuilderInv

\* Start makes a listener for each handler of each service and each queue.
LEMMA StartInv ==
  ASSUME BuilderInv, phase = "built", phase' \in {"serving", "unserved"},
         listeners' = UNION {StartServing(s) : s \in DOMAIN services},
         rpc_context' = execution_context,
         UNCHANGED <<builderVars, services, execution_context>>
  PROVE  BuilderInv'
<1>1. ASSUME NEW s, NEW i \in DOMAIN services[s], NEW q \in CompletionQueues
      PROVE  ListenerOf(services[s][i], q) \in StartServing(s)
  <2>1. AddedMethods(s)[i] = services[s][i].name
    BY Zenon DEF AddedMethods
  <2> QED BY <2>1 DEF StartServing, ListenerOf
<1>2. ASSUME NEW s, NEW l \in StartServing(s)
      PROVE  \E i \in DOMAIN services[s], q \in CompletionQueues : l = ListenerOf(services[s][i], q)
  <2>1. PICK i \in DOMAIN services[s], q \in CompletionQueues :
          l = [name |-> AddedMethods(s)[i], handler |-> services[s][i],
               type |-> StreamType(services[s][i]), queue |-> q]
    BY DEF StartServing
  <2>2. AddedMethods(s)[i] = services[s][i].name
    BY Zenon DEF AddedMethods
  <2> QED BY Zenon, <2>1, <2>2 DEF ListenerOf
<1>3. ASSUME NEW l \in listeners'
      PROVE  \E slot \in DOMAIN rpc_handlers, q \in CompletionQueues :
               l = ListenerOf(rpc_handlers[slot], q)
  <2>1. PICK s \in DOMAIN services : l \in StartServing(s)
    BY Zenon
  <2>2. PICK i \in DOMAIN services[s], q \in CompletionQueues : l = ListenerOf(services[s][i], q)
    BY Zenon, <1>2, <2>1
  <2>3. PICK slot \in DOMAIN rpc_handlers : services[s][i] = rpc_handlers[slot]
    BY Zenon DEF BuilderInv, ServicesInv
  <2> QED BY Zenon, <2>2, <2>3
<1>4. ASSUME NEW slot \in DOMAIN rpc_handlers, NEW q \in CompletionQueues
      PROVE  ListenerOf(rpc_handlers[slot], q) \in listeners'
  <2>1. slot.service \in DOMAIN services
    BY Zenon DEF BuilderInv, ServicesInv
  <2>2. PICK i \in DOMAIN services[slot.service] :
          services[slot.service][i] = rpc_handlers[slot]
    BY Zenon DEF BuilderInv, ServicesInv
  <2>3. ListenerOf(rpc_handlers[slot], q) \in StartServing(slot.service)
    BY Zenon, <1>1, <2>2
  <2> QED BY Zenon, <2>1, <2>3
<1>5. HandlersInv' /\ RegisteredInv' /\ ServicesInv'
  <2>1. HandlersInv' /\ RegisteredInv'
    BY Zenon DEF BuilderInv, HandlersInv, RegisteredInv, builderVars
  <2>2. phase \in {"built", "serving", "unserved", "stopped"} /\ phase' # "building"
    BY Zenon
  <2>3. ServicesInv'
    BY Zenon, <2>2, ServicesKept DEF BuilderInv, builderVars
  <2> QED BY Zenon, <2>1, <2>3
<1>6. ListenersInv'
  <2>1. CompletionQueues' = CompletionQueues /\ rpc_handlers' = rpc_handlers
    BY Zenon DEF CompletionQueues, builderVars
  <2>2. phase' \notin {"building", "built"}
    BY Zenon
  <2> QED BY Zenon, <1>3, <1>4, <2>1, <2>2 DEF ListenersInv
<1> QED BY Zenon, <1>5, <1>6 DEF BuilderInv, HandlersContextIsLive

\* A CHECK that fails, and every other step that leaves handlers, services and
\* listeners alone.
LEMMA OtherInv ==
  ASSUME BuilderInv, UNCHANGED <<registered, rpc_handlers, services, listeners>>,
         phase = "building" \/ options' = options,
         \/ phase' = "crashed"
         \/ phase' = phase /\ UNCHANGED contextVars
         \/ phase = phase' /\ phase \in {"built", "unserved"}
         \/ phase = "serving" /\ phase' = "stopped" /\ UNCHANGED contextVars
  PROVE  BuilderInv'
<1>1. HandlersInv' /\ RegisteredInv'
  BY Zenon DEF BuilderInv, HandlersInv, RegisteredInv
<1>2. ServicesInv'
  <2>1. /\ phase' \in {"built", "serving", "unserved", "stopped"} => phase \in {"built", "serving", "unserved", "stopped"}
        /\ phase' = "building" => phase = "building"
    BY Zenon
  <2>2. ServicesInv /\ UNCHANGED <<rpc_handlers, services>>
    BY Zenon DEF BuilderInv
  <2> QED BY Zenon, <2>1, <2>2, ServicesKept
<1>3. ListenersInv'
  <2>1. CASE phase = "building"
    BY Zenon, <2>1 DEF BuilderInv, ListenersInv, Serving
  <2>2. CASE options' = options
    <3>1. CompletionQueues' = CompletionQueues
      BY Zenon, <2>2 DEF CompletionQueues
    <3> QED BY Zenon, <3>1 DEF BuilderInv, ListenersInv, Serving
  <2> QED BY Zenon, <2>1, <2>2
<1>4. HandlersContextIsLive'
  BY Zenon DEF BuilderInv, HandlersContextIsLive, Serving, contextVars
<1> QED BY Zenon, <1>1, <1>2, <1>3, <1>4 DEF BuilderInv

\* Whatever the application calls, in whatever order, keeps the invariant.
LEMMA BuilderInvariance == BuilderSpec => []BuilderInv
<1>1. BuilderInit => BuilderInv
  <2>1. DOMAIN <<>> = {} /\ <<>> \in Seq(HandlerTypes)
    OBVIOUS
  <2> QED BY Zenon, <2>1, FS_EmptySet
          DEF BuilderInit, BuilderInv, HandlersInv, RegisteredInv, ServicesInv, ListenersInv,
              HandlersContextIsLive, Serving
<1>2. ASSUME BuilderInv, [BuilderNext]_serverVars PROVE BuilderInv'
  <2>1. CASE UNCHANGED serverVars
    BY Zenon, <1>2, <2>1, OtherInv DEF serverVars, builderVars
  <2>2. CASE Crash
    BY Zenon, <1>2, <2>2, OtherInv DEF Crash, builderVars
  <2>3. ASSUME NEW n \in ThreadCounts, SetNumGrpcThreads(n) \/ SetNumEventThreads(n)
        PROVE  BuilderInv'
    BY Zenon, <1>2, <2>3, OtherInv DEF SetNumGrpcThreads, SetNumEventThreads, SetOption
  <2>4. ASSUME NEW h \in HandlerTypes, RegisterHandler(h) PROVE BuilderInv'
    BY Zenon, <1>2, <2>2, <2>4, RegisterInv DEF RegisterHandler
  <2>5. ASSUME NEW c \in Contexts, SetExecutionContext(c) PROVE BuilderInv'
    BY Zenon, <1>2, <2>2, <2>5, OtherInv DEF SetExecutionContext, builderVars
  <2>6. CASE Build
    BY Zenon, <1>2, <2>6, BuildInv
  <2>7. ASSUME NEW started \in {"serving", "unserved"}, Start(started) PROVE BuilderInv'
    BY Zenon, <1>2, <2>2, <2>7, StartInv DEF Start
  <2>8. CASE Shutdown
    BY Zenon, <1>2, <2>2, <2>8, OtherInv DEF Shutdown, builderVars
  <2> QED BY Zenon, <1>2, <2>1, <2>2, <2>3, <2>4, <2>5, <2>6, <2>7, <2>8
          DEF BuilderNext, SetMaxMessageSize, EnableTracing, Done
<1> QED BY <1>1, <1>2, PTL DEF BuilderSpec

\* However many handlers are registered and whatever their names are, each is filed
\* under the service and the method that its name says, by the documented structure
\* of a full name (server.cc:81-91, rpc_service_method_traits.h:55).
THEOREM HandlersAreFiledByName == BuilderSpec => []HandlersAreFiled
<1>1. BuilderInv => HandlersAreFiled
  <2> SUFFICES ASSUME BuilderInv, NEW slot \in DOMAIN rpc_handlers
               PROVE  IsNamed(rpc_handlers[slot].name, slot.service, slot.method)
    BY Zenon DEF HandlersAreFiled
  <2> QED BY Zenon, FiledIsNamed DEF BuilderInv
<1> QED BY <1>1, BuilderInvariance, PTL

\* A call reaches the handler that was registered for its method, through both maps,
\* the index of the method and the type traits, and no method has two (server.h:99-113,
\* service.cc:26-55).
THEOREM CallsFindTheirHandler == BuilderSpec => []CallsReachTheirHandler
<1>1. ASSUME BuilderInv PROVE CallsReachTheirHandler
  <2>1. ASSUME NEW l \in listeners
        PROVE  \E slot \in DOMAIN rpc_handlers, q \in CompletionQueues :
                 /\ l = ListenerOf(rpc_handlers[slot], q)
                 /\ rpc_handlers[slot] \in HandlerTypes
                 /\ SlotOf(rpc_handlers[slot]) = slot
    BY Zenon, <1>1 DEF BuilderInv, ListenersInv, HandlersInv
  <2>2. ASSUME NEW h \in HandlerTypes, NEW q
        PROVE  /\ ListenerOf(h, q).name = h.name /\ ListenerOf(h, q).handler = h
               /\ ListenerOf(h, q).type \in {"CLIENT_STREAMING", "BIDI_STREAMING"}
                    <=> h.incoming = "Stream"
               /\ ListenerOf(h, q).type \in {"SERVER_STREAMING", "BIDI_STREAMING"}
                    <=> h.outgoing = "Stream"
    BY DEF ListenerOf, StreamType, RpcType, HandlerTypes, MessageTypes
  <2>3. ASSUME NEW l \in listeners, NEW k \in listeners, k.name = l.name
        PROVE  k.handler = l.handler
    <3>1. PICK a \in DOMAIN rpc_handlers, q \in CompletionQueues :
            l = ListenerOf(rpc_handlers[a], q) /\ rpc_handlers[a] \in HandlerTypes
              /\ SlotOf(rpc_handlers[a]) = a
      BY Zenon, <2>1
    <3>2. PICK b \in DOMAIN rpc_handlers, r \in CompletionQueues :
            k = ListenerOf(rpc_handlers[b], r) /\ rpc_handlers[b] \in HandlerTypes
              /\ SlotOf(rpc_handlers[b]) = b
      BY Zenon, <2>1
    <3>3. rpc_handlers[a].name = rpc_handlers[b].name
      BY Zenon, <2>2, <2>3, <3>1, <3>2
    <3>4. a = b
      BY Zenon, <3>1, <3>2, <3>3 DEF SlotOf
    <3>5. l.handler = rpc_handlers[a] /\ k.handler = rpc_handlers[b]
      BY Zenon, <2>2, <3>1, <3>2
    <3> QED BY Zenon, <3>4, <3>5
  <2>4. ASSUME NEW l \in listeners
        PROVE  /\ l.name = l.handler.name
               /\ l.type \in {"CLIENT_STREAMING", "BIDI_STREAMING"} <=> l.handler.incoming = "Stream"
               /\ l.type \in {"SERVER_STREAMING", "BIDI_STREAMING"} <=> l.handler.outgoing = "Stream"
    <3>1. PICK a \in DOMAIN rpc_handlers, q \in CompletionQueues :
            l = ListenerOf(rpc_handlers[a], q) /\ rpc_handlers[a] \in HandlerTypes
      BY Zenon, <2>1
    <3> DEFINE h == rpc_handlers[a]
    <3>2. h \in HandlerTypes /\ l = ListenerOf(h, q)
      BY Zenon, <3>1
    <3> HIDE DEF h
    <3>3. /\ l.name = h.name /\ l.handler = h
          /\ l.type \in {"CLIENT_STREAMING", "BIDI_STREAMING"} <=> h.incoming = "Stream"
          /\ l.type \in {"SERVER_STREAMING", "BIDI_STREAMING"} <=> h.outgoing = "Stream"
      BY Zenon, <2>2, <3>2
    <3> QED BY Zenon, <3>3
  <2> QED BY Zenon, <2>3, <2>4 DEF CallsReachTheirHandler
<1> QED BY <1>1, BuilderInvariance, PTL

\* A registered handler is served on every completion queue, unless one that was
\* registered before it is for the same service and method: emplace keeps what is there
\* (server.h:99-113), and StartServing goes through all queues (service.cc:44-54).
THEOREM FirstRegistrationServes == BuilderSpec => []FirstComesServed
<1>1. ASSUME BuilderInv PROVE FirstComesServed
  <2> SUFFICES ASSUME Serving, NEW i \in DOMAIN registered
               PROVE  \/ \A q \in CompletionQueues :
                           \E l \in listeners : l.handler = registered[i] /\ l.queue = q
                      \/ \E j \in 1 .. i - 1 : \E slot \in DOMAIN rpc_handlers :
                           /\ IsNamed(registered[j].name, slot.service, slot.method)
                           /\ IsNamed(registered[i].name, slot.service, slot.method)
    BY Zenon DEF FirstComesServed
  <2> DEFINE slot == SlotOf(registered[i])
  <2>1. /\ registered[i] \in HandlerTypes /\ i \in Nat
        /\ NameIsValid(registered[i].name)
        /\ slot \in DOMAIN rpc_handlers
    BY <1>1 DEF BuilderInv, RegisteredInv
  <2>2. PICK j \in 1 .. i : rpc_handlers[slot] = registered[j]
    BY Zenon, <1>1 DEF BuilderInv, RegisteredInv
  <2>3. CASE j = i
    <3>1. \A q \in CompletionQueues : ListenerOf(registered[i], q) \in listeners
      BY Zenon, <1>1, <2>1, <2>2, <2>3 DEF BuilderInv, ListenersInv
    <3>2. \A q : ListenerOf(registered[i], q).handler = registered[i]
                 /\ ListenerOf(registered[i], q).queue = q
      BY DEF ListenerOf
    <3> QED BY Zenon, <3>1, <3>2
  <2>4. CASE j # i
    <3>1. j \in 1 .. i - 1
      BY <2>1, <2>4
    <3>2. IsNamed(registered[j].name, slot.service, slot.method)
      BY Zenon, <1>1, <2>1, <2>2, FiledIsNamed DEF BuilderInv
    <3>3. registered[i].name \in Seq(Characters)
      BY Zenon, <2>1, NamesAssumption, NameOfHandler
    <3>4. IsNamed(registered[i].name, slot.service, slot.method)
      BY Zenon, <2>1, <3>3, ParsedIsNamed DEF SlotOf
    <3> QED BY Zenon, <2>1, <3>1, <3>2, <3>4
  <2> QED BY Zenon, <2>3, <2>4
<1> QED BY <1>1, BuilderInvariance, PTL

\* The context to which Rpcs have a plain pointer is the one that the server owns, from
\* Start until after Shutdown (server.cc:166-201, 237-243).
THEOREM ContextOutlivesHandlers == BuilderSpec => []HandlersContextIsLive
<1>1. BuilderInv => HandlersContextIsLive
  BY Zenon DEF BuilderInv
<1> QED BY <1>1, BuilderInvariance, PTL

-----------------------------------------------------------------------------
(* The unary Client *)

\* The first n powers of b, computed one from the other.
PowersTo(b, n) ==
  {g \in [0..n -> Nat] : g[0] = 1 /\ \A i \in 1..n : g[i] = b * g[i - 1]}

\* There are such powers for every n.
LEMMA PowersExist ==
  ASSUME NEW b \in Nat, NEW n \in Nat
  PROVE  PowersTo(b, n) # {}
<1> DEFINE Bad == {i \in Nat : PowersTo(b, i) = {}}
<1>1. SUFFICES ASSUME Bad # {} PROVE FALSE
  OBVIOUS
<1>2. PICK m \in Nat : PowersTo(b, m) = {} /\ \A i \in Nat : i < m => PowersTo(b, i) # {}
  <2>1. Bad \in SUBSET Nat
    OBVIOUS
  <2>2. Min(Bad) \in Bad /\ \A i \in Bad : Min(Bad) <= i
    BY Zenon, <1>1, <2>1, LeastOf
  <2> QED BY <2>2
<1>3. m # 0
  <2>1. [i \in 0..0 |-> 1] \in PowersTo(b, 0)
    BY DEF PowersTo
  <2> QED BY <1>2, <2>1
<1>4. PICK g : g \in PowersTo(b, m - 1)
  BY <1>2, <1>3
<1> DEFINE h == [i \in 0..m |-> IF i = m THEN b * g[m - 1] ELSE g[i]]
<1>5. /\ g \in [0..(m - 1) -> Nat] /\ g[0] = 1
      /\ \A i \in 1..(m - 1) : g[i] = b * g[i - 1]
  BY <1>4 DEF PowersTo
<1>6. g[m - 1] \in Nat
  BY <1>3, <1>5
<1>7. b * g[m - 1] \in Nat
  BY <1>6
<1>8. h \in [0..m -> Nat]
  BY <1>3, <1>5, <1>7
<1>9. h[0] = 1 /\ h[m] = b * g[m - 1] /\ \A i \in 0..(m - 1) : h[i] = g[i]
  BY <1>3, <1>5
<1> HIDE DEF h
<1>10. ASSUME NEW i \in 1..m PROVE h[i] = b * h[i - 1]
  <2>1. CASE i = m
    BY <1>3, <1>9, <2>1
  <2>2. CASE i # m
    <3>1. i \in 1..(m - 1) /\ i \in 0..(m - 1) /\ i - 1 \in 0..(m - 1)
      BY <2>2
    <3>2. h[i] = g[i] /\ h[i - 1] = g[i - 1] /\ g[i] = b * g[i - 1]
      BY <3>1, <1>5, <1>9
    <3> QED BY <3>2
  <2> QED BY <2>1, <2>2
<1>11. h \in PowersTo(b, m)
  BY <1>8, <1>9, <1>10 DEF PowersTo
<1> QED
  BY <1>2, <1>11

\* They do not depend on how far one computes.
LEMMA PowersAgree ==
  ASSUME NEW b \in Nat, NEW m \in Nat, NEW n \in Nat, m <= n,
         NEW g \in PowersTo(b, m), NEW h \in PowersTo(b, n), NEW i \in 0..m
  PROVE  g[i] = h[i]
<1> DEFINE Bad == {j \in 0..m : g[j] # h[j]}
<1>1. SUFFICES ASSUME Bad # {} PROVE FALSE
  OBVIOUS
<1>2. PICK k \in 0..m : g[k] # h[k] /\ \A j \in 0..m : j < k => g[j] = h[j]
  <2>1. Bad \in SUBSET Nat
    OBVIOUS
  <2>2. Min(Bad) \in Bad /\ \A j \in Bad : Min(Bad) <= j
    BY Zenon, <1>1, <2>1, LeastOf
  <2> QED BY <2>2
<1>3. g[0] = 1 /\ h[0] = 1
  BY DEF PowersTo
<1>4. k \in 1..m /\ k \in 1..n /\ k - 1 \in 0..m /\ k - 1 < k
  BY <1>2, <1>3
<1>5. g[k] = b * g[k - 1] /\ h[k] = b * h[k - 1]
  BY <1>4 DEF PowersTo
<1> QED
  BY <1>2, <1>4, <1>5

\* The recursion of std::pow has a solution: the powers, each base times the one
\* before (retry.cc:62).
LEMMA PowIs ==
  ASSUME NEW b \in Nat
  PROVE  /\ pow(b, 0) = 1
         /\ \A n \in Nat : pow(b, n) \in Nat
         /\ \A n \in Nat \ {0} : pow(b, n) = b * pow(b, n - 1)
<1> DEFINE IsPower(p) == p = [n \in Nat |-> IF n = 0 THEN 1 ELSE b * p[n - 1]]
           first(n) == CHOOSE g : g \in PowersTo(b, n)
           f == [n \in Nat |-> first(n)[n]]
<1>1. ASSUME NEW n \in Nat PROVE first(n) \in PowersTo(b, n)
  BY Zenon, <1>1, PowersExist
<1> HIDE DEF first
<1>2. ASSUME NEW n \in Nat PROVE f[n] \in Nat
  BY <1>1 DEF PowersTo
<1>3. f[0] = 1
  BY <1>1 DEF PowersTo
<1>4. ASSUME NEW n \in Nat \ {0} PROVE f[n] = b * f[n - 1]
  <2>1. /\ n - 1 \in Nat /\ n - 1 <= n /\ n - 1 \in 0..(n - 1) /\ n \in 1..n /\ n \in Nat
    OBVIOUS
  <2>2. first(n)[n] = b * first(n)[n - 1]
    BY <2>1, <1>1 DEF PowersTo
  <2>3. first(n - 1)[n - 1] = first(n)[n - 1]
    BY <2>1, <1>1, PowersAgree
  <2> QED BY <2>1, <2>2, <2>3
<1>5. IsPower(f)
  <2> DEFINE g == [n \in Nat |-> IF n = 0 THEN 1 ELSE b * f[n - 1]]
  <2>1. \A n \in Nat : f[n] = g[n]
    <3> SUFFICES ASSUME NEW n \in Nat PROVE f[n] = g[n]
      OBVIOUS
    <3> HIDE DEF f
    <3> QED BY <1>3, <1>4
  <2>2. f = [n \in Nat |-> f[n]] /\ g = [n \in Nat |-> g[n]]
    OBVIOUS
  <2> HIDE DEF f, g
  <2>3. f = g
    BY Zenon, <2>1, <2>2
  <2> QED BY Zenon, <2>3 DEF g
<1>6. IsPower(CHOOSE p : IsPower(p))
  <2> HIDE DEF IsPower, f
  <2> QED BY Zenon, <1>5
<1>7. PICK q : IsPower(q) /\ \A n : pow(b, n) = q[n]
  BY Zenon, <1>6 DEF pow
<1> HIDE DEF f
<1>8. q = [n \in Nat |-> IF n = 0 THEN 1 ELSE b * q[n - 1]]
  BY <1>7
<1>9. q[0] = 1
  BY <1>8
<1>10. ASSUME NEW n \in Nat \ {0} PROVE q[n] = b * q[n - 1]
  BY <1>8
<1>11. ASSUME NEW n \in Nat PROVE q[n] \in Nat
  <2> DEFINE Bad == {i \in Nat : q[i] \notin Nat}
  <2>1. SUFFICES ASSUME Bad # {} PROVE FALSE
    OBVIOUS
  <2>2. PICK m \in Nat : q[m] \notin Nat /\ \A i \in Nat : i < m => q[i] \in Nat
    <3>1. Bad \in SUBSET Nat
      OBVIOUS
    <3>2. Min(Bad) \in Bad /\ \A i \in Bad : Min(Bad) <= i
      BY Zenon, <2>1, <3>1, LeastOf
    <3> QED BY <3>2
  <2>3. m \in Nat \ {0} /\ m - 1 \in Nat /\ m - 1 < m
    BY <2>2, <1>9
  <2>4. q[m] = b * q[m - 1] /\ q[m - 1] \in Nat
    BY <2>2, <2>3, <1>10
  <2> QED BY <2>2, <2>4
<1> HIDE DEF IsPower
<1> QED
  BY <1>7, <1>9, <1>10, <1>11

\* What a limited strategy promises (retry.cc:38, 56), as the code states it:
\* the delay of the i-th retry is the i-th of the calculator, and a Write that
\* fails has had max_attempts attempts.
KeepsSchedule ==
  retry_strategy.indicator = "limited" =>
    /\ \A i \in 1..Len(delays) : delays[i] = Delay(retry_strategy, i)
    /\ Len(delays) = 0 \/ Len(delays) < retry_strategy.max_attempts
    /\ pc = "idle" /\ status # "OK" /\ retry_strategy.max_attempts > 0 =>
         Len(delays) = retry_strategy.max_attempts - 1

\* The inductive invariant: types, the properties, and that the attempts of a
\* limited strategy are counted by the delays, as its limit is below the bound
\* at which they stop growing.
ClientInv ==
  /\ TypeOK
  /\ ContextsAreFresh
  /\ OneTimeout
  /\ KeepsSchedule
  /\ retry_strategy.indicator = "limited" => failed_attempts = Len(delays)

\* The delay calculator of a strategy gives times, the first is the delay the
\* strategy was made with, and each is factor times the one before (retry.cc:56).
LEMMA DelayIs ==
  ASSUME NEW s \in Strategies, s # NoStrategy
  PROVE  /\ \A n \in Nat \ {0} : Delay(s, n) \in Nat
         /\ Delay(s, 1) = s.delay
         /\ \A n \in Nat \ {0, 1} : Delay(s, n) = Delay(s, n - 1) * s.factor
<1>1. PICK f \in Nat, d \in Nat : f = s.factor /\ d = s.delay
  BY StrategiesAssumption DEF RetryStrategies
<1>2. /\ pow(f, 0) = 1
      /\ \A n \in Nat : pow(f, n) \in Nat
      /\ \A n \in Nat \ {0} : pow(f, n) = f * pow(f, n - 1)
  BY Zenon, PowIs
<1>3. \A n : Delay(s, n) = pow(f, n - 1) * d
  BY Zenon, <1>1 DEF Delay
<1>4. ASSUME NEW n \in Nat \ {0} PROVE Delay(s, n) \in Nat
  <2>1. n - 1 \in Nat
    OBVIOUS
  <2>2. pow(f, n - 1) \in Nat
    BY Zenon, <2>1, <1>2
  <2> QED BY <2>2, <1>3
<1>5. Delay(s, 1) = d
  <2>1. 1 - 1 = 0
    OBVIOUS
  <2>2. Delay(s, 1) = 1 * d
    BY Zenon, <2>1, <1>2, <1>3
  <2> QED BY <2>2
<1>6. ASSUME NEW n \in Nat \ {0, 1} PROVE Delay(s, n) = Delay(s, n - 1) * f
  <2>1. PICK m \in Nat \ {0} : m = n - 1 /\ m - 1 \in Nat
    OBVIOUS
  <2>2. PICK x \in Nat : x = pow(f, m - 1)
    BY Zenon, <2>1, <1>2
  <2>3. pow(f, m) = f * x
    BY Zenon, <2>2, <1>2
  <2>4. Delay(s, n) = (f * x) * d /\ Delay(s, n - 1) = x * d
    BY Zenon, <2>1, <2>2, <2>3, <1>3
  <2>5. (f * x) * d = (x * d) * f
    OBVIOUS
  <2> QED BY Zenon, <2>4, <2>5
<1> QED
  BY Zenon, <1>1, <1>4, <1>5, <1>6

\* A strategy that is limited counts to a number within the bound.
LEMMA LimitedStrategy ==
  ASSUME NEW s \in Strategies, s.indicator = "limited"
  PROVE  s # NoStrategy /\ s.max_attempts \in Nat /\ s.max_attempts <= MaxRetries
BY StrategiesAssumption DEF RetryStrategies, NoStrategy

\* The invariant holds when a Client has been made (client.h:51, 61).
LEMMA InitClientInv == Init => ClientInv
BY TimeoutsAssumption, MaxRetriesAssumption
   DEF Init, ClientInv, TypeOK, ContextsAreFresh, OneTimeout, KeepsSchedule, ResetContext,
       Never, Codes

\* What an answer does, whatever follows from it.
LEMMA AnswerFrame ==
  ASSUME ClientInv, NEW s \in Codes, Answer(s)
  PROVE  /\ retry_strategy' = retry_strategy /\ timeout' = timeout /\ left' = left
         /\ status' = s
         /\ context' \in [left : Nat \cup {Never}, used : BOOLEAN]
BY DEF ClientInv, TypeOK, Answer

\* An answer that ends Write keeps the invariant: with a limited strategy it is
\* a success or the last of max_attempts failures (retry.cc:97-105).
LEMMA GiveUpClientInv ==
  ASSUME ClientInv, NEW s \in Codes, Answer(s), GiveUp,
         ~(s # "OK" /\ retry_strategy # NoStrategy
           /\ Indicates(retry_strategy, OneMore(failed_attempts), s))
  PROVE  ClientInv'
<1>1. /\ retry_strategy' = retry_strategy /\ timeout' = timeout /\ left' = left
      /\ status' = s /\ context' \in [left : Nat \cup {Never}, used : BOOLEAN]
  BY AnswerFrame
<1>2. /\ pc' = "idle" /\ failed_attempts' = failed_attempts /\ delays' = delays
      /\ sleep' = sleep
  BY DEF GiveUp
<1>3. ASSUME retry_strategy.indicator = "limited", s # "OK", retry_strategy.max_attempts > 0
      PROVE  Len(delays) = retry_strategy.max_attempts - 1
  <2>1. /\ retry_strategy # NoStrategy /\ retry_strategy.max_attempts \in Nat
        /\ retry_strategy.max_attempts <= MaxRetries
    BY <1>3, LimitedStrategy DEF ClientInv, TypeOK
  <2>2. ~(OneMore(failed_attempts) < retry_strategy.max_attempts)
    BY <1>3, <2>1 DEF Indicates
  <2>3. /\ failed_attempts = Len(delays) /\ Len(delays) \in Nat
        /\ Len(delays) = 0 \/ Len(delays) < retry_strategy.max_attempts
    BY <1>3 DEF ClientInv, TypeOK, KeepsSchedule
  <2> QED
    BY <1>3, <2>1, <2>2, <2>3, MaxRetriesAssumption DEF OneMore
<1> QED
  BY <1>1, <1>2, <1>3 DEF ClientInv, TypeOK, ContextsAreFresh, OneTimeout, KeepsSchedule

\* An answer that is retried keeps the invariant: the loop goes on only if the
\* indicator says so (retry.cc:103), and the next attempt waits for its reset.
LEMMA RetryClientInv ==
  ASSUME ClientInv, NEW s \in Codes, Answer(s), SleepBeforeRetry,
         retry_strategy # NoStrategy, Indicates(retry_strategy, OneMore(failed_attempts), s)
  PROVE  ClientInv'
<1>1. /\ retry_strategy' = retry_strategy /\ timeout' = timeout /\ left' = left
      /\ status' = s /\ context' \in [left : Nat \cup {Never}, used : BOOLEAN]
  BY AnswerFrame
<1>2. PICK d : d = Delay(retry_strategy, OneMore(failed_attempts))
  OBVIOUS
<1>3. /\ failed_attempts' = OneMore(failed_attempts) /\ pc' = "sleeping" /\ sleep' = d
      /\ delays' = IF Len(delays) < MaxRetries THEN Append(delays, d) ELSE delays
  BY <1>1, <1>2 DEF SleepBeforeRetry, Delay
<1>4. OneMore(failed_attempts) \in 0..(MaxRetries + 1) /\ d \in Nat
  <2>1. OneMore(failed_attempts) \in 0..(MaxRetries + 1) /\ OneMore(failed_attempts) \in Nat \ {0}
    BY MaxRetriesAssumption DEF ClientInv, TypeOK, OneMore
  <2>2. retry_strategy \in Strategies
    BY DEF ClientInv, TypeOK
  <2> QED
    BY Zenon, <2>1, <2>2, <1>2, DelayIs
<1>5. /\ delays \in Seq(Nat) /\ delays' \in Seq(Nat)
      /\ Len(delays') <= MaxRetries
  <2>1. delays \in Seq(Nat) /\ Len(delays) <= MaxRetries
    BY DEF ClientInv, TypeOK
  <2> QED
    BY <1>3, <1>4, <2>1, MaxRetriesAssumption
<1>6. ASSUME retry_strategy.indicator = "limited"
      PROVE  /\ Len(delays') = failed_attempts' /\ Len(delays') < retry_strategy.max_attempts
             /\ \A i \in 1..Len(delays') : delays'[i] = Delay(retry_strategy, i)
  <2>1. /\ retry_strategy.max_attempts \in Nat /\ retry_strategy.max_attempts <= MaxRetries
        /\ failed_attempts = Len(delays)
        /\ \A i \in 1..Len(delays) : delays[i] = Delay(retry_strategy, i)
    BY <1>6, LimitedStrategy DEF ClientInv, TypeOK, KeepsSchedule
  <2>2. OneMore(failed_attempts) < retry_strategy.max_attempts
    BY <1>6 DEF Indicates
  <2>3. Len(delays) < MaxRetries /\ OneMore(failed_attempts) = Len(delays) + 1
    BY <1>5, <2>1, <2>2, MaxRetriesAssumption DEF OneMore
  <2>4. /\ delays' = Append(delays, d) /\ Len(delays') = Len(delays) + 1
        /\ delays'[Len(delays) + 1] = d
        /\ \A i \in 1..Len(delays) : delays'[i] = delays[i]
    BY <1>3, <1>4, <1>5, <2>3
  <2>5. \A i \in 1..Len(delays') : i \in 1..Len(delays) \/ i = Len(delays) + 1
    BY <1>5, <2>4
  <2> QED
    BY <1>2, <1>3, <2>1, <2>2, <2>3, <2>4, <2>5
<1> QED
  BY <1>1, <1>3, <1>4, <1>5, <1>6 DEF ClientInv, TypeOK, ContextsAreFresh, OneTimeout, KeepsSchedule

\* Every step keeps the invariant.
LEMMA NextClientInv == ClientInv /\ [Next]_vars => ClientInv'
<1> SUFFICES ASSUME ClientInv, [Next]_vars PROVE ClientInv'
  OBVIOUS
<1>1. CASE Write
  BY <1>1, TimeoutsAssumption, MaxRetriesAssumption
     DEF Write, ResetContext, ClientInv, TypeOK, ContextsAreFresh, OneTimeout, KeepsSchedule, Codes
<1>2. ASSUME NEW s \in Codes, Answer(s) PROVE ClientInv'
  BY <1>2, GiveUpClientInv, RetryClientInv DEF Answer, RetryWithStrategy
<1>3. CASE Reset
  BY <1>3 DEF Reset, ResetContext, ClientInv, TypeOK, ContextsAreFresh, OneTimeout, KeepsSchedule
<1>4. CASE Tick
  BY <1>4 DEF Tick, Elapse, Never, ClientInv, TypeOK, ContextsAreFresh, OneTimeout, KeepsSchedule
<1>5. CASE UNCHANGED vars
  BY <1>5 DEF vars, ClientInv, TypeOK, ContextsAreFresh, OneTimeout, KeepsSchedule
<1> QED
  BY <1>1, <1>2, <1>3, <1>4, <1>5 DEF Next

\* The invariant holds in every reachable state.
LEMMA ClientInvariance == Spec => []ClientInv
BY InitClientInv, NextClientInv, PTL DEF Spec

\* No ClientContext serves two attempts, in one Write or in several
\* (client.h:78, 85).
THEOREM NoContextIsReused == Spec => []ContextsAreFresh
<1>1. ClientInv => ContextsAreFresh
  BY DEF ClientInv
<1> QED
  BY <1>1, ClientInvariance, PTL

\* All attempts of a Write run against the deadline that it computed when it
\* began (client.h:59, 76).
THEOREM RetriesShareTheTimeout == Spec => []OneTimeout
<1>1. ClientInv => OneTimeout
  BY DEF ClientInv
<1> QED
  BY <1>1, ClientInvariance, PTL

\* A Write with a limited strategy sleeps the delays of its backoff, in order,
\* and fails only after max_attempts attempts (retry.cc:38, 56, 103).
THEOREM RetriesKeepSchedule == Spec => []KeepsSchedule
<1>1. ClientInv => KeepsSchedule
  BY DEF ClientInv
<1> QED
  BY <1>1, ClientInvariance, PTL

\* What README.md:206-211 says of the limited strategy holds for every minimum delay,
\* factor and number of attempts: the first retry comes after the minimum delay,
\* every other after factor times the delay before it, and a Write that fails
\* has slept max_attempts - 1 times (retry.cc:56, 71, 103).
THEOREM BackoffIsDocumented == Spec => []BacksOffAsDocumented
<1>1. ASSUME ClientInv, retry_strategy.indicator = "limited"
      PROVE  /\ Len(delays) < 1 \/ delays[1] = retry_strategy.delay
             /\ \A i \in 2..Len(delays) : delays[i] = delays[i - 1] * retry_strategy.factor
  <2>1. retry_strategy \in Strategies /\ Len(delays) \in Nat
    BY <1>1 DEF ClientInv, TypeOK
  <2>2. retry_strategy # NoStrategy
    BY Zenon, <1>1, <2>1, LimitedStrategy
  <2>3. \A i \in 1..Len(delays) : delays[i] = Delay(retry_strategy, i)
    BY Zenon, <1>1 DEF ClientInv, KeepsSchedule
  <2>4. Len(delays) < 1 \/ 1 \in 1..Len(delays)
    BY <2>1
  <2>5. Len(delays) < 1 \/ delays[1] = retry_strategy.delay
    BY Zenon, <2>1, <2>2, <2>3, <2>4, DelayIs
  <2>6. ASSUME NEW i \in 2..Len(delays)
        PROVE  delays[i] = delays[i - 1] * retry_strategy.factor
    <3>1. i \in 1..Len(delays) /\ i - 1 \in 1..Len(delays) /\ i \in Nat \ {0, 1}
      BY <2>1
    <3> QED
      BY Zenon, <3>1, <2>1, <2>2, <2>3, DelayIs
  <2> QED
    BY Zenon, <2>5, <2>6
<1>2. ClientInv => BacksOffAsDocumented
  BY Zenon, <1>1 DEF BacksOffAsDocumented, ClientInv, KeepsSchedule
<1> QED
  BY <1>2, ClientInvariance, PTL
-----------------------------------------------------------------------------
(* BlockingQueue *)

\* A thread is given another label and nothing else changes.
LEMMA MoveToType ==
  ASSUME QueueTypeOK, NEW t \in Callers, NEW label \in Places, MoveTo(t, label)
  PROVE  /\ caller' \in [Callers -> [pc : Places, op : Operations, value : Values \cup {NoValue}]]
         /\ caller'[t] = At(label, caller[t].op, caller[t].value)
         /\ \A u \in Callers : u # t => caller'[u] = caller[u]
BY DEF QueueTypeOK, MoveTo, At

\* What an operation that proceeds has found, and what it does.
LEMMA ProceedCases ==
  ASSUME NEW t, Proceed(t)
  PROVE  \/ /\ caller[t].op \in Pushes /\ QueueNotFullCondition
            /\ deque' = Append(deque, caller[t].value)
         \/ caller[t].op \in Pops /\ deque # <<>> /\ deque' = Tail(deque)
         \/ /\ caller[t].op \notin Pushes \cup Pops
            /\ caller[t].op = "WaitUntilEmpty" => deque = <<>>
            /\ deque' = deque
BY DEF Proceed, Operate, Ready, QueueEmptyCondition, Pushes, Pops

\* The inductive invariant: Push carries a value, and only an operation with a
\* timeout can run out of time.
QueueInv ==
  /\ QueueTypeOK
  /\ \A t \in Callers :
       /\ caller[t].op \in Pushes => caller[t].value \in Values
       /\ caller[t].pc = "expired" => caller[t].op \in Timed

\* The constructor.
LEMMA InitQueueInv == QueueInit => QueueInv
BY DEF QueueInit, QueueInv, QueueTypeOK, Outside, At, Places, Operations, Pushes

\* The operations keep the state within its types.
LEMMA NextQueueInv == QueueInv /\ [QueueNext]_queueVars => QueueInv'
<1> SUFFICES ASSUME QueueInv, [QueueNext]_queueVars PROVE QueueInv'
  OBVIOUS
<1> USE DEF QueueInv
<1>1. ASSUME NEW t \in Callers, NEW act \in Operations, NEW v \in Inputs(act), EnterQueue(t, act, v)
      PROVE  QueueInv'
  BY <1>1 DEF QueueTypeOK, EnterQueue, Inputs, At, Places
<1>2. ASSUME NEW t \in Callers, NEW label \in Places, MoveTo(t, label),
             label = "expired" => caller[t].op \in Timed
      PROVE  /\ caller' \in [Callers -> [pc : Places, op : Operations, value : Values \cup {NoValue}]]
             /\ \A u \in Callers :
                  /\ caller'[u].op \in Pushes => caller'[u].value \in Values
                  /\ caller'[u].pc = "expired" => caller'[u].op \in Timed
  BY <1>2 DEF QueueTypeOK, MoveTo, At
<1>3. ASSUME NEW t \in Callers, Proceed(t) PROVE QueueInv'
  <2>1. deque' \in Seq(Values)
    <3>1. deque \in Seq(Values) /\ (caller[t].op \in Pushes => caller[t].value \in Values)
      BY DEF QueueTypeOK
    <3>2. \/ \E v \in Values : deque' = Append(deque, v)
          \/ deque # <<>> /\ deque' = Tail(deque)
          \/ deque' = deque
      BY <1>3, <3>1, ProceedCases
    <3> QED BY <3>1, <3>2
  <2> QED BY <1>2, <1>3, <2>1 DEF Proceed, QueueTypeOK, Places
<1>4. ASSUME NEW t \in Callers, Wait(t) \/ ReturnInVain(t) \/ Timeout(t) \/ SpuriousWakeup(t)
      PROVE  QueueInv'
  BY <1>2, <1>4 DEF Wait, ReturnInVain, Timeout, SpuriousWakeup, QueueTypeOK, Places
<1>5. ASSUME NEW t \in Callers, NotifyAll(t) PROVE QueueInv'
  BY <1>5 DEF NotifyAll, QueueTypeOK, Outside, At, Places, Operations, Pushes
<1>6. CASE UNCHANGED queueVars
  BY <1>6 DEF queueVars, QueueTypeOK
<1> QED BY <1>1, <1>3, <1>4, <1>5, <1>6 DEF QueueNext, Step

\* The queue keeps its state within its types.
THEOREM QueueTypeCorrect == QueueSpec => []QueueInv
BY InitQueueInv, NextQueueInv, PTL DEF QueueSpec

\* Unlocking before notify_all loses no wakeup, for any number of threads.
THEOREM WakeupsAreNotLost == QueueSpec => []NoLostWakeup
<1>1. QueueInit => NoLostWakeup
  BY DEF QueueInit, NoLostWakeup, Outside, At
<1>2. QueueInv /\ NoLostWakeup /\ [QueueNext]_queueVars => NoLostWakeup'
  <2> SUFFICES ASSUME QueueInv, NoLostWakeup, [QueueNext]_queueVars PROVE NoLostWakeup'
    OBVIOUS
  <2> USE DEF QueueInv
  <2>1. ASSUME NEW t \in Callers, NEW act \in Operations, NEW v \in Inputs(act), EnterQueue(t, act, v)
        PROVE  NoLostWakeup'
    <3>1. /\ caller'[t].pc = "lock" /\ caller[t].pc = "idle"
          /\ \A u \in Callers : u # t => caller'[u] = caller[u]
      BY <2>1 DEF EnterQueue, QueueTypeOK, At
    <3>2. \A o : Ready(o)' <=> Ready(o)
      BY <2>1 DEF EnterQueue, Ready, QueueNotFullCondition, QueueEmptyCondition
    <3> QED BY <3>1, <3>2 DEF NoLostWakeup
  <2>2. ASSUME NEW t \in Callers, Proceed(t) \/ ReturnInVain(t) PROVE NoLostWakeup'
    <3>1. MoveTo(t, "notify")
      BY <2>2 DEF Proceed, ReturnInVain
    <3>2. caller'[t] = At("notify", caller[t].op, caller[t].value)
      BY <3>1, MoveToType DEF Places
    <3>3. caller'[t].pc = "notify"
      BY <3>2 DEF At
    <3> QED BY <3>3 DEF NoLostWakeup
  <2>3. ASSUME NEW t \in Callers, Wait(t) \/ Timeout(t) \/ SpuriousWakeup(t)
        PROVE  NoLostWakeup'
    <3>1. PICK label \in {"wait", "expired", "lock"} : MoveTo(t, label)
      BY <2>3 DEF Wait, Timeout, SpuriousWakeup
    <3>2. /\ caller'[t] = At(label, caller[t].op, caller[t].value)
          /\ \A u \in Callers : u # t => caller'[u] = caller[u]
      BY <3>1, MoveToType DEF Places
    <3>3. \A o : Ready(o)' <=> Ready(o)
      BY <2>3 DEF Wait, Timeout, SpuriousWakeup, Ready, QueueNotFullCondition, QueueEmptyCondition
    <3>4. caller[t].pc # "notify" /\ (caller'[t].pc = "wait" => ~Ready(caller'[t].op))
      BY <2>3, <3>1, <3>2, <3>3 DEF Wait, Timeout, SpuriousWakeup, At, MoveTo, QueueTypeOK
    <3> QED BY <3>2, <3>3, <3>4 DEF NoLostWakeup
  <2>4. ASSUME NEW t \in Callers, NotifyAll(t) PROVE NoLostWakeup'
    BY <2>4 DEF NotifyAll, NoLostWakeup, Outside, At
  <2>5. CASE UNCHANGED queueVars
    BY <2>5 DEF queueVars, NoLostWakeup, Ready, QueueNotFullCondition, QueueEmptyCondition
  <2> QED BY <2>1, <2>2, <2>3, <2>4, <2>5 DEF QueueNext, Step
<1> QED BY <1>1, <1>2, QueueTypeCorrect, PTL DEF QueueSpec

\* No interleaving of Push and PushWithTimeout exceeds queue_size_.
THEOREM BoundIsKept == QueueSpec => []SizeRespected
<1>1. QueueInit => SizeRespected
  BY QueueSizesAssumption DEF QueueInit, SizeRespected
<1>2. QueueInv /\ SizeRespected /\ [QueueNext]_queueVars => SizeRespected'
  <2> SUFFICES ASSUME QueueInv, SizeRespected, [QueueNext]_queueVars PROVE SizeRespected'
    OBVIOUS
  <2>1. ASSUME NEW t \in Callers, Proceed(t) PROVE SizeRespected'
    <3>0. deque \in Seq(Values) /\ queue_size \in Nat /\ queue_size' = queue_size
      BY <2>1, QueueSizesAssumption DEF QueueInv, QueueTypeOK, Proceed
    <3>1. CASE QueueNotFullCondition /\ \E v \in Values : deque' = Append(deque, v)
      BY <3>0, <3>1 DEF SizeRespected, QueueNotFullCondition
    <3>2. CASE deque # <<>> /\ deque' = Tail(deque)
      BY <3>0, <3>2 DEF SizeRespected
    <3>3. CASE deque' = deque
      BY <3>0, <3>3 DEF SizeRespected
    <3> QED BY <2>1, <3>1, <3>2, <3>3, ProceedCases DEF QueueInv
  <2>2. CASE UNCHANGED <<queue_size, deque>>
    BY <2>2 DEF SizeRespected
  <2> QED BY <2>1, <2>2 DEF QueueNext, Step, EnterQueue, Wait, ReturnInVain, Timeout, SpuriousWakeup, NotifyAll, queueVars
<1> QED BY <1>1, <1>2, QueueTypeCorrect, PTL DEF QueueSpec

\* The refinement mapping, on one thread.
CallOf(t) == F!Call(State(caller[t].pc), caller[t].op, caller[t].value)

\* A step that takes thread t from one label to another is a step of its call.
LEMMA MoveToCall ==
  ASSUME QueueInv, NEW t \in Callers, NEW label \in Places, MoveTo(t, label)
  PROVE  [u \in Callers |-> CallOf(u)]' =
           [[u \in Callers |-> CallOf(u)] EXCEPT
              ![t] = F!Call(State(label), caller[t].op, caller[t].value)]
<1>1. /\ caller'[t] = At(label, caller[t].op, caller[t].value)
      /\ \A u \in Callers : u # t => caller'[u] = caller[u]
  BY MoveToType DEF QueueInv
<1>2. CallOf(t)' = F!Call(State(label), caller[t].op, caller[t].value)
  BY <1>1 DEF CallOf, At
<1>3. \A u \in Callers : u # t => CallOf(u)' = CallOf(u)
  BY <1>1 DEF CallOf
<1> QED BY <1>2, <1>3

\* Every behaviour of BlockingQueue is one of a first-in first-out queue whose
\* operations take effect at one moment.
THEOREM QueueIsFifo == QueueSpec => IsFifo
<1> DEFINE underway == [u \in Callers |-> CallOf(u)]
<1>1. QueueInit => F!Init
  BY DEF QueueInit, F!Init, Outside, At, F!NoCall, F!Call, State
<1>2. QueueInv /\ [QueueNext]_queueVars => [F!Next]_F!fifoVars
  <2> SUFFICES ASSUME QueueInv, [QueueNext]_queueVars PROVE F!Next \/ UNCHANGED F!fifoVars
    OBVIOUS
  <2> USE DEF F!Call
  <2>0. \A t \in Callers : underway[t].op = caller[t].op /\ underway[t].value = caller[t].value
                             /\ underway[t].state = State(caller[t].pc)
    BY DEF CallOf
  <2>1. ASSUME NEW t \in Callers, NEW act \in Operations, NEW v \in Inputs(act), EnterQueue(t, act, v)
        PROVE  F!Next
    <3>1. F!Begin(t, act, v)
      BY <2>1 DEF EnterQueue, F!Begin, State, At, Inputs, F!Pushes, Pushes, QueueInv, QueueTypeOK
    <3> QED BY <3>1 DEF F!Next, Inputs, Operations, F!Operations, Pushes, Pops, F!Pushes, F!Pops
  <2>2. ASSUME NEW t \in Callers, Proceed(t) PROVE F!Next
    <3>1. F!Done(t)
      BY <2>2, MoveToCall DEF Proceed, F!Done, State, Places, CallOf
    <3>2. F!Put(t) \/ F!Take(t) \/ F!Look(t)
      BY <2>2, <3>1, ProceedCases
         DEF F!Put, F!Take, F!Look, F!Pushes, F!Pops, Pushes, Pops, Operations,
             QueueNotFullCondition, kInfiniteQueueSize, QueueInv, QueueTypeOK
    <3> QED BY <3>2 DEF F!Next
  <2>3. ASSUME NEW t \in Callers, ReturnInVain(t) PROVE F!Next
    <3>1. F!Done(t)
      BY <2>3, MoveToCall DEF ReturnInVain, F!Done, State, Places, CallOf
    <3>2. F!GiveUp(t)
      <4>1. deque \in Seq(Values) /\ queue_size \in Nat
        BY QueueSizesAssumption DEF QueueInv, QueueTypeOK
      <4>2. caller[t].op \in Timed /\ ~Ready(caller[t].op)
        BY <2>3 DEF ReturnInVain, QueueInv
      <4>3. \/ caller[t].op = "PushWithTimeout" /\ queue_size # 0 /\ Len(deque) >= queue_size
            \/ caller[t].op = "PopWithTimeout" /\ deque = <<>>
        BY <4>1, <4>2 DEF Timed, Ready, Pushes, Pops, QueueNotFullCondition,
                          QueueEmptyCondition, kInfiniteQueueSize
      <4> QED BY <2>3, <3>1, <4>3 DEF ReturnInVain, F!GiveUp
    <3> QED BY <3>2 DEF F!Next
  <2>4. ASSUME NEW t \in Callers, Wait(t) \/ Timeout(t) \/ SpuriousWakeup(t)
        PROVE  UNCHANGED F!fifoVars
    <3>1. PICK label \in {"wait", "expired", "lock"} : MoveTo(t, label)
      BY <2>4 DEF Wait, Timeout, SpuriousWakeup
    <3>2. State(label) = State(caller[t].pc)
      BY <2>4 DEF Wait, Timeout, SpuriousWakeup, State
    <3>3. underway' = [underway EXCEPT ![t] = CallOf(t)]
      <4>1. underway' = [underway EXCEPT ![t] = F!Call(State(label), caller[t].op, caller[t].value)]
        <5>1. label \in Places
          BY Zenon DEF Places
        <5> QED BY Zenon, <3>1, <5>1, MoveToCall
      <4> QED BY <3>2, <4>1 DEF CallOf
    <3>4. underway' = underway
      BY <3>3
    <3>5. UNCHANGED <<queue_size, deque>>
      BY <2>4 DEF Wait, Timeout, SpuriousWakeup
    <3> QED BY <3>4, <3>5 DEF F!fifoVars, CallOf
  <2>5. ASSUME NEW t \in Callers, NotifyAll(t) PROVE F!Next
    <3>1. F!Return(t)
      BY <2>5 DEF NotifyAll, F!Return, F!NoCall, Outside, At, State, QueueInv, QueueTypeOK
    <3> QED BY <3>1 DEF F!Next
  <2>6. CASE UNCHANGED queueVars
    BY <2>6 DEF queueVars, F!fifoVars
  <2> QED BY <2>1, <2>2, <2>3, <2>4, <2>5, <2>6 DEF QueueNext, Step
<1> QED BY <1>1, <1>2, QueueTypeCorrect, PTL DEF QueueSpec, IsFifo, F!Spec
=============================================================================
