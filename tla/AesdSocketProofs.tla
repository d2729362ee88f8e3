--------------------------- MODULE AesdSocketProofs ---------------------------
(***************************************************************************)
(* What AesdSocket promises, for any number of structs, connections and    *)
(* packets, in both builds and with any set of faults: the list of threads *)
(* is sound, and main returns only when every thread has been joined.      *)
(***************************************************************************)
EXTENDS AesdSocket, SequenceTheorems, TLAPS

-------------------------------------------------------------------------------
(***************************************************************************)
(* The singly-linked list of queue.h.                                      *)
(***************************************************************************)

Pointer == Structs \union {Null}

(* The members of a list contain its head and their successors.            *)
LEMMA MembersClosed ==
  ASSUME NEW h \in Pointer, NEW n \in [Structs -> Pointer]
  PROVE  /\ Members(h, n) \subseteq Structs
         /\ ClosedList(h, n, Members(h, n))
<1>1. Members(h, n) \subseteq Structs
  BY DEF Members
<1>2. h # Null => h \in Members(h, n)
  BY DEF Members, ClosedList, Pointer
<1>3. ASSUME NEW t \in Members(h, n), n[t] # Null
      PROVE  n[t] \in Members(h, n)
  <2>1. t \in Structs /\ n[t] \in Structs
    BY <1>1, <1>3 DEF Pointer
  <2>2. ASSUME NEW S \in SUBSET Structs, ClosedList(h, n, S)
        PROVE  n[t] \in S
    <3>1. t \in S
      BY <1>3, <2>2 DEF Members
    <3>. QED
      BY <1>3, <2>2, <3>1 DEF ClosedList
  <2>. QED
    BY <2>1, <2>2 DEF Members
<1>. QED
  BY <1>1, <1>2, <1>3 DEF ClosedList

(* They are the least set that does.                                       *)
LEMMA MembersLeast ==
  ASSUME NEW h, NEW n, NEW S \in SUBSET Structs, ClosedList(h, n, S)
  PROVE  Members(h, n) \subseteq S
BY DEF Members

(* A member is the head or the successor of a member.                      *)
LEMMA HasPredecessor ==
  ASSUME NEW h \in Pointer, NEW n \in [Structs -> Pointer],
         NEW e \in Members(h, n), e # h
  PROVE  \E t \in Members(h, n) : t # e /\ n[t] = e
<1>1. /\ Members(h, n) \subseteq Structs /\ ClosedList(h, n, Members(h, n))
  BY MembersClosed
<1>. DEFINE S == Members(h, n) \ {e}
<1>2. SUFFICES ASSUME \A t \in Members(h, n) : t # e => n[t] # e
               PROVE  FALSE
  OBVIOUS
<1>3. ClosedList(h, n, S)
  BY <1>1, <1>2 DEF ClosedList
<1>4. S \in SUBSET Structs
  BY <1>1
<1>5. Members(h, n) \subseteq S
  <2>. HIDE DEF S
  <2>. QED
    BY <1>3, <1>4, MembersLeast
<1>. QED
  BY <1>5

(* On a linear list no element is its own successor.                       *)
LEMMA NoSelfLoop ==
  ASSUME NEW h \in Pointer, NEW n \in [Structs -> Pointer], Linear(h, n),
         NEW e \in Members(h, n)
  PROVE  n[e] # e
<1>1. CASE e = h
  BY <1>1 DEF Linear
<1>2. CASE e # h
  <2>1. PICK t \in Members(h, n) : t # e /\ n[t] = e
    BY <1>2, HasPredecessor
  <2>2. e # Null
    BY MembersClosed, AddressAssumption
  <2>. QED
    BY <2>1, <2>2 DEF Linear
<1>. QED
  BY <1>1, <1>2

(* An empty list has no members.                                           *)
LEMMA EmptyList ==
  ASSUME NEW n
  PROVE  Members(Null, n) = {} /\ Linear(Null, n)
<1>1. ClosedList(Null, n, {})
  BY DEF ClosedList
<1>2. Members(Null, n) = {}
  BY <1>1, MembersLeast
<1>. QED
  BY <1>2 DEF Linear

(* SLIST_INSERT_HEAD adds its element and nothing else.                    *)
LEMMA InsertHeadMembers ==
  ASSUME NEW h \in Pointer, NEW n \in [Structs -> Pointer], Linear(h, n),
         NEW e \in Structs, e \notin Members(h, n)
  PROVE  LET m == [n EXCEPT ![e] = h]
         IN  Members(e, m) = Members(h, n) \union {e} /\ Linear(e, m)
<1>. DEFINE m == [n EXCEPT ![e] = h]
            L == Members(h, n)
<1>1. L \subseteq Structs /\ ClosedList(h, n, L)
  BY MembersClosed
<1>2. /\ m \in [Structs -> Pointer] /\ m[e] = h
      /\ \A t \in Structs : t # e => m[t] = n[t]
  BY DEF Pointer
<1>3. e # Null
  BY AddressAssumption
<1>. HIDE DEF m, L
<1>4. Members(e, m) \subseteq L \union {e}
  <2>1. ClosedList(e, m, L \union {e})
    BY <1>1, <1>2, <1>3 DEF ClosedList, L
  <2>. QED
    BY <1>1, <2>1, MembersLeast
<1>5. ClosedList(e, m, Members(e, m)) /\ Members(e, m) \subseteq Structs
  BY <1>2, MembersClosed DEF Pointer
<1>6. e \in Members(e, m)
  BY <1>3, <1>5 DEF ClosedList
<1>7. L \subseteq Members(e, m)
  <2>. DEFINE S == Members(e, m) \intersect L
  <2>1. ClosedList(h, n, S)
    BY <1>1, <1>2, <1>5, <1>6 DEF ClosedList, L
  <2>2. S \in SUBSET Structs
    BY <1>1
  <2>3. Members(h, n) \subseteq S
    <3>. HIDE DEF S
    <3>. QED
      BY <2>1, <2>2, MembersLeast
  <2>. QED
    BY <2>3 DEF L
<1>8. Members(e, m) = L \union {e}
  BY <1>4, <1>6, <1>7
<1>9. Linear(e, m)
  <2>1. \A t, u \in L : n[t] = n[u] /\ n[t] # Null => t = u
    BY DEF Linear, L
  <2>2. \A t \in L : n[t] # h /\ n[t] # e
    BY <1>1, <1>3 DEF Linear, L, ClosedList
  <2>3. e \notin L /\ h # e
    BY <1>1, <1>3 DEF L, ClosedList
  <2>. QED
    BY <1>1, <1>2, <1>8, <2>1, <2>2, <2>3 DEF Linear
<1>. QED
  BY <1>8, <1>9 DEF m, L

(* SLIST_REMOVE_HEAD takes the head off and nothing else.                  *)
LEMMA RemoveHeadMembers ==
  ASSUME NEW h \in Structs, NEW n \in [Structs -> Pointer], Linear(h, n)
  PROVE  LET m == [n EXCEPT ![h] = Null]
         IN  Members(n[h], m) = Members(h, n) \ {h} /\ Linear(n[h], m)
<1>. DEFINE m == [n EXCEPT ![h] = Null]
            L == Members(h, n)
            g == n[h]
<1>1. L \subseteq Structs /\ ClosedList(h, n, L)
  BY MembersClosed DEF Pointer
<1>2. /\ m \in [Structs -> Pointer] /\ m[h] = Null /\ g \in Pointer
      /\ \A t \in Structs : t # h => m[t] = n[t]
  BY DEF Pointer
<1>3. h # Null
  BY AddressAssumption
<1>4. h \in L
  BY <1>1, <1>3 DEF ClosedList
<1>5. \A t \in L : n[t] # h
  BY DEF Linear
<1>6. \A t, u \in L : n[t] = n[u] /\ n[t] # Null => t = u
  BY DEF Linear
<1>7. n[h] = g
  OBVIOUS
<1>. HIDE DEF m, L, g
<1>8. Members(g, m) \subseteq L \ {h}
  <2>1. ClosedList(g, m, L \ {h})
    BY <1>1, <1>2, <1>4, <1>5, <1>7 DEF ClosedList
  <2>. QED
    BY <1>1, <2>1, MembersLeast
<1>9. ClosedList(g, m, Members(g, m)) /\ Members(g, m) \subseteq Structs
  BY <1>2, MembersClosed
<1>10. L \subseteq Members(g, m) \union {h}
  <2>. DEFINE S == Members(g, m) \union {h}
  <2>1. ClosedList(h, n, S)
    BY <1>2, <1>7, <1>8, <1>9 DEF ClosedList
  <2>2. S \in SUBSET Structs
    BY <1>9
  <2>3. Members(h, n) \subseteq S
    <3>. HIDE DEF S
    <3>. QED
      BY <2>1, <2>2, MembersLeast
  <2>. QED
    BY <2>3 DEF L
<1>11. Members(g, m) = L \ {h}
  BY <1>8, <1>10
<1>12. Linear(g, m)
  <2>1. ASSUME NEW t \in Members(g, m)
        PROVE  t \in L /\ t # h /\ m[t] = n[t] /\ t # Null
    BY <1>1, <1>2, <1>11, AddressAssumption
  <2>2. ASSUME NEW t \in Members(g, m)
        PROVE  m[t] # g
    <3>1. g # Null
      <4>1. g = Null => Members(g, m) = {}
        BY EmptyList
      <4>. QED
        BY <4>1
    <3>. QED
      BY <1>4, <1>6, <1>7, <2>1, <2>2, <3>1
  <2>. QED
    BY <1>6, <2>1, <2>2 DEF Linear
<1>. QED
  BY <1>11, <1>12 DEF m, L, g

(* The next pointers n once e, which follows p, is off the list.           *)
Unlink(n, p, e) == [n EXCEPT ![p] = n[e], ![e] = Null]

(***************************************************************************)
(* SLIST_REMOVE of an element that is not the head takes that element off  *)
(* and nothing else; p is the one the loop of the macro stops at.          *)
(***************************************************************************)
LEMMA RemoveMembers ==
  ASSUME NEW h \in Pointer, NEW n \in [Structs -> Pointer], Linear(h, n),
         NEW e \in Members(h, n), e # h, NEW p \in Members(h, n), n[p] = e
  PROVE  /\ Members(h, Unlink(n, p, e)) = Members(h, n) \ {e}
         /\ Linear(h, Unlink(n, p, e))
<1>. DEFINE m == Unlink(n, p, e)
            L == Members(h, n)
<1>1. L \subseteq Structs /\ ClosedList(h, n, L)
  BY MembersClosed
<1>2. p # e /\ n[e] # e
  BY NoSelfLoop
<1>3. e \in Structs /\ p \in Structs /\ e # Null
  BY <1>1, AddressAssumption
<1>4. /\ m \in [Structs -> Pointer] /\ m[p] = n[e] /\ m[e] = Null
      /\ \A t \in Structs : t # p /\ t # e => m[t] = n[t]
  BY <1>2, <1>3 DEF Pointer, Unlink
<1>5. \A t, u \in L : n[t] = n[u] /\ n[t] # Null => t = u
  BY DEF Linear
<1>6. \A t \in L : n[t] # h
  BY DEF Linear
<1>7. e \in L /\ p \in L
  OBVIOUS
<1>. HIDE DEF m, L
<1>8. \A t \in L : t # p => n[t] # e
  BY <1>3, <1>5, <1>7
<1>9. Members(h, m) \subseteq L \ {e}
  <2>1. ClosedList(h, m, L \ {e})
    BY <1>1, <1>2, <1>4, <1>7, <1>8 DEF ClosedList
  <2>. QED
    BY <1>1, <2>1, MembersLeast
<1>10. ClosedList(h, m, Members(h, m)) /\ Members(h, m) \subseteq Structs
  BY <1>4, MembersClosed
<1>11. p \in Members(h, m)
  <2>1. SUFFICES ASSUME p \notin Members(h, m) PROVE FALSE
    OBVIOUS
  <2>2. ClosedList(h, n, Members(h, m))
    BY <1>4, <1>9, <1>10, <2>1 DEF ClosedList
  <2>3. L \subseteq Members(h, m)
    BY <1>10, <2>2, MembersLeast DEF L
  <2>. QED
    BY <1>7, <2>1, <2>3
<1>12. L \subseteq Members(h, m) \union {e}
  <2>. DEFINE S == Members(h, m) \union {e}
  <2>1. ClosedList(h, n, S)
    BY <1>3, <1>4, <1>9, <1>10, <1>11 DEF ClosedList
  <2>2. S \in SUBSET Structs
    BY <1>3, <1>10
  <2>3. Members(h, n) \subseteq S
    <3>. HIDE DEF S
    <3>. QED
      BY <2>1, <2>2, MembersLeast
  <2>. QED
    BY <2>3 DEF L
<1>13. Members(h, m) = L \ {e}
  BY <1>9, <1>12
<1>14. Linear(h, m)
  <2>1. ASSUME NEW t \in Members(h, m)
        PROVE  /\ t \in L /\ t # e
               /\ m[t] = IF t = p THEN n[e] ELSE n[t]
    BY <1>1, <1>4, <1>13
  <2>2. ASSUME NEW t \in Members(h, m), NEW u \in Members(h, m), m[t] = m[u], m[t] # Null
        PROVE  t = u
    BY <1>5, <1>7, <2>1, <2>2
  <2>3. ASSUME NEW t \in Members(h, m)
        PROVE  m[t] # h
    BY <1>6, <1>7, <2>1, <2>3
  <2>. QED
    BY <2>2, <2>3 DEF Linear
<1>. QED
  BY <1>13, <1>14 DEF m, L

-------------------------------------------------------------------------------
(***************************************************************************)
(* The invariant, and the steps that leave the list alone.                 *)
(***************************************************************************)

(* What the next state has to show of its list.                            *)
LEMMA ListSoundNext ==
  ASSUME main' # "killed" =>
           /\ Members(head', next') = alloc' \ (IF main' = "insert" THEN {thread_ptr'} ELSE {})
           /\ alloc' = {t \in Structs : worker'[t] # "none"}
           /\ Linear(head', next')
           /\ main' \in {"timer", "stamp", "clear", "reap", "join"} =>
                {thread_ptr', next_thread'} \ {Null} \subseteq Members(head', next')
  PROVE  ListSound'
BY DEF ListSound, ListMembers, Members, Linear, ClosedList

(* The device keeps at most N commands.                                    *)
LEMMA LogAfterBound ==
  ASSUME NEW S, NEW s \in Seq(S), NEW p, NEW b, Len(s) <= N
  PROVE  /\ LogAfter(s, p, b) \in Seq(Range(LogAfter(s, p, b)))
         /\ Len(LogAfter(s, p, b)) <= N
<1>. DEFINE e == p \o FirstLine(b)
            T == S \union {e}
            a == Append(s, e)
<1>1. N \in Nat
  BY LogAssumption
<1>2. a \in Seq(T)
  <2>1. s \in Seq(T) /\ e \in T
    OBVIOUS
  <2>. HIDE DEF e, T
  <2>. QED
    BY <2>1
<1>. HIDE DEF a, T
<1>3. LastN(a) \in Seq(T) /\ Len(LastN(a)) <= N
  <2>1. CASE Len(a) <= N
    BY <1>2, <2>1 DEF LastN
  <2>2. CASE Len(a) > N
    BY <1>1, <1>2, <2>2 DEF LastN
  <2>. QED
    BY <1>1, <1>2, <2>1, <2>2
<1>4. LogAfter(s, p, b) = LastN(a) \/ LogAfter(s, p, b) = s
  BY DEF LogAfter, a
<1>. QED
  BY <1>3, <1>4, SeqOfRange

(* At the start there is no struct, no thread and no command.              *)
LEMMA InitInv == Init => IInv
<1>. SUFFICES ASSUME Init PROVE IInv
  OBVIOUS
<1>1. TypeOK
  <2>1. UseDevice => Len(log) <= N
    BY LogAssumption DEF Init
  <2>2. main \in MainLabels /\ worker \in [Structs -> WorkerLabels]
    BY DEF Init, MainLabels, Starting, WorkerLabels
  <2>. QED
    BY <2>1, <2>2 DEF Init, TypeOK
<1>2. log \in Seq(Range(log))
  BY SeqOfRange DEF Init
<1>3. ListSound
  <2>1. Members(head, next) = {} /\ Linear(head, next)
    BY EmptyList DEF Init
  <2>. QED
    BY <2>1 DEF Init, ListSound, ListMembers
<1>4. Pointers
  BY DEF Init, Pointers
<1>5. LogMutexHeld
  BY AddressAssumption DEF Init, LogMutexHeld
<1>. QED
  BY <1>1, <1>2, <1>3, <1>4, <1>5 DEF IInv

(***************************************************************************)
(* A step that leaves list and threads alone keeps the invariant when main *)
(* is not about to insert, or still is, and its pointers are on the list.  *)
(***************************************************************************)
LEMMA QuietStep ==
  ASSUME IInv, TypeOK', Pointers', log' \in Seq(Range(log')),
         UNCHANGED <<head, next, alloc, worker, log_mutex>>,
         main' # "killed" =>
           /\ main # "killed"
           /\ main' = "insert" <=> main = "insert"
           /\ main = "insert" => thread_ptr' = thread_ptr
           /\ main' \in {"timer", "stamp", "clear", "reap", "join"} =>
                {thread_ptr', next_thread'} \ {Null} \subseteq ListMembers
  PROVE  IInv'
<1>1. ListSound'
  BY ListSoundNext DEF IInv, ListSound, ListMembers
<1>2. LogMutexHeld'
  BY DEF IInv, LogMutexHeld
<1>3. (log \in Seq(Range(log)))'
  BY DEF Range
<1>. QED
  BY <1>1, <1>2, <1>3 DEF IInv

(* What clients, signals and the timer do is no concern of the list.       *)
LEMMA OutsideStep ==
  ASSUME IInv, UNCHANGED <<retval, accepted, list, threads, log_mutex, device>>,
         main' = main \/ (main = "accept" /\ main' = "timer" /\ ~UseDevice),
         {signal_caught', shut', timer_fired'} \subseteq BOOLEAN,
         backlog' \subseteq Conns
  PROVE  IInv'
<1>1. TypeOK'
  BY DEF IInv, TypeOK, list, threads, device, MainLabels, Starting, Over
<1>2. Pointers'
  BY DEF IInv, Pointers, list, threads, Starting
<1>3. log' \in Seq(Range(log'))
  BY DEF IInv, device
<1>4. CASE main' = main
  <2>1. ~(main' = "killed") =>
          (main' \in {"timer", "stamp", "clear", "reap", "join"} =>
                {thread_ptr', next_thread'} \ {Null} \subseteq ListMembers)
    BY <1>4 DEF IInv, ListSound, list
  <2>. QED
    BY <1>1, <1>2, <1>3, <1>4, <2>1, QuietStep DEF list, threads
<1>5. CASE main = "accept" /\ main' = "timer"
  <2>1. {thread_ptr', next_thread'} \ {Null} = {}
    BY <1>5 DEF IInv, Pointers, list
  <2>. QED
    BY <1>1, <1>2, <1>3, <1>5, <2>1, QuietStep DEF list, threads
<1>. QED
  BY <1>4, <1>5

LEMMA ClientStep ==
  ASSUME IInv, NEW c \in Conns, Client(c)
  PROVE  IInv'
<1>1. CASE EndStream(c) \/ Vanish(c)
  BY <1>1, OutsideStep DEF EndStream, Vanish, control, signals, IInv, TypeOK
<1>2. ASSUME NEW b \in Packets, Connect(c, b)
      PROVE  IInv'
  BY <1>2, OutsideStep DEF Connect, control, signals, IInv, TypeOK
<1>. QED
  BY <1>1, <1>2 DEF Client

LEMMA SignalStep ==
  ASSUME IInv, Signal \/ TimerInterrupts \/ TimerElsewhere
  PROVE  IInv'
<1>1. CASE Signal
  <2>1. {signal_caught', shut', timer_fired'} \subseteq BOOLEAN /\ backlog' \subseteq Conns
    BY <1>1 DEF Signal, IInv, TypeOK, network
  <2>2. main' = main /\ UNCHANGED <<retval, accepted, list, threads, log_mutex, device>>
    BY <1>1 DEF Signal, control
  <2>. QED
    BY <2>1, <2>2, OutsideStep
<1>2. CASE TimerInterrupts \/ TimerElsewhere
  <2>1. {signal_caught', shut', timer_fired'} \subseteq BOOLEAN /\ backlog' \subseteq Conns
    BY <1>2 DEF TimerInterrupts, TimerElsewhere, Expires, IInv, TypeOK, network
  <2>2. /\ main' = main \/ (main = "accept" /\ main' = "timer" /\ ~UseDevice)
        /\ UNCHANGED <<retval, accepted, list, threads, log_mutex, device>>
    BY <1>2 DEF TimerInterrupts, TimerElsewhere, Expires
  <2>. QED
    BY <2>1, <2>2, OutsideStep
<1>. QED
  BY <1>1, <1>2

-------------------------------------------------------------------------------
(***************************************************************************)
(* The main thread.                                                        *)
(***************************************************************************)

(* The head of the list and the successors of its elements are on it.      *)
LEMMA OnList ==
  ASSUME IInv
  PROVE  /\ head # Null => head \in ListMembers
         /\ \A t \in ListMembers : t \in Structs /\ (next[t] # Null => next[t] \in ListMembers)
<1>1. head \in Pointer /\ next \in [Structs -> Pointer]
  BY DEF IInv, TypeOK, Pointer
<1>. QED
  BY <1>1, MembersClosed DEF ListMembers, ClosedList

(* Nothing is allocated while main starts up, nor when it gives up then.   *)
LEMMA BeginStep ==
  ASSUME IInv, NEW from \in Starting, NEW to \in (Starting \ {"start"}) \union {"loop"},
         NEW exits, Begin(from, to, exits)
  PROVE  IInv'
<1>1. /\ main = from /\ main' \in {to, "exited"} /\ retval' \in {retval, -1}
      /\ UNCHANGED <<accepted, list, threads, network, log_mutex, device, signals>>
  BY DEF Begin, MainStep
<1>2. TypeOK'
  BY <1>1 DEF IInv, TypeOK, MainLabels, Starting, Over, list, threads, network, device, signals
<1>3. Pointers'
  BY <1>1 DEF IInv, Pointers, Starting, list
<1>4. log' \in Seq(Range(log'))
  BY <1>1 DEF IInv, device
<1>. QED
  BY <1>1, <1>2, <1>3, <1>4, QuietStep DEF Starting, list, threads

LEMMA LoopStep ==
  ASSUME IInv, Loop
  PROVE  IInv'
<1>1. /\ main = "loop"
      /\ main' = "stop" \/ (main' = "accept" /\ retval # -1)
      /\ UNCHANGED <<retval, accepted, list, threads, network, log_mutex, device, signals>>
  BY DEF Loop, MainStep
<1>2. TypeOK'
  BY <1>1 DEF IInv, TypeOK, MainLabels, list, threads, network, device, signals
<1>3. Pointers'
  BY <1>1 DEF IInv, Pointers, Starting, list
<1>4. log' \in Seq(Range(log'))
  BY <1>1 DEF IInv, device
<1>. QED
  BY <1>1, <1>2, <1>3, <1>4, QuietStep DEF list, threads

LEMMA AcceptStep ==
  ASSUME IInv, Accept
  PROVE  IInv'
<1>1. /\ main = "accept"
      /\ UNCHANGED <<retval, head, next, alloc, next_thread, threads, log_mutex, device, signals>>
      /\ \/ main' = "create" /\ thread_ptr' = thread_ptr
         \/ main' \in {"reap", "timer"} /\ thread_ptr' = head /\ (main' = "timer" => ~UseDevice)
  BY DEF Accept, MainStep
<1>2. backlog' \subseteq Conns /\ accepted' \in Conns \union {NoConn}
  BY DEF Accept, IInv, TypeOK
<1>3. TypeOK'
  BY <1>1, <1>2 DEF IInv, TypeOK, MainLabels, threads, device, signals
<1>4. Pointers'
  BY <1>1 DEF IInv, Pointers, Starting
<1>5. log' \in Seq(Range(log'))
  BY <1>1 DEF IInv, device
<1>6. main' \in {"reap", "timer"} => {thread_ptr', next_thread'} \ {Null} \subseteq ListMembers
  BY <1>1, OnList DEF IInv, Pointers
<1>. QED
  BY <1>1, <1>3, <1>4, <1>5, <1>6, QuietStep DEF threads

LEMMA TimerStep ==
  ASSUME IInv, CheckTimer \/ ClearTimer
  PROVE  IInv'
<1>1. /\ main \in {"timer", "clear"} /\ main' \in {"stamp", "reap"}
      /\ main' = "stamp" => main = "timer"
      /\ thread_ptr' \in {thread_ptr, head}
      /\ UNCHANGED <<retval, accepted, head, next, alloc, next_thread, threads, log_mutex, device,
                     network, signal_caught, shut>>
      /\ timer_fired' \in {timer_fired, FALSE}
  BY DEF CheckTimer, ClearTimer, MainStep, signals, list
<1>2. TypeOK'
  BY <1>1 DEF IInv, TypeOK, MainLabels, threads, device, network
<1>3. Pointers'
  BY <1>1 DEF IInv, Pointers, Starting
<1>4. log' \in Seq(Range(log'))
  BY <1>1 DEF IInv, device
<1>5. {thread_ptr', next_thread'} \ {Null} \subseteq ListMembers
  BY <1>1, OnList DEF IInv, ListSound
<1>. QED
  BY <1>1, <1>2, <1>3, <1>4, <1>5, QuietStep DEF threads

LEMMA PrintTimestampStep ==
  ASSUME IInv, PrintTimestamp
  PROVE  IInv'
<1>1. /\ main = "stamp"
      /\ UNCHANGED <<accepted, pending, log_mutex, signals, list, threads, network>>
      /\ \/ log' = Append(log, Stamp) /\ main' = "clear" /\ retval' = retval
         \/ log' = log /\ main' = "loop" /\ retval' = -1
  BY DEF PrintTimestamp
<1>2. ~UseDevice
  BY <1>1 DEF IInv, Pointers
<1>3. TypeOK'
  BY <1>1, <1>2 DEF IInv, TypeOK, MainLabels, list, threads, network, signals
<1>4. Pointers'
  BY <1>1, <1>2 DEF IInv, Pointers, Starting, list
<1>5. log' \in Seq(Range(log'))
  <2>1. log \in Seq(Range(log))
    BY DEF IInv
  <2>2. Append(log, Stamp) \in Seq(Range(log) \union {Stamp})
    <3>. DEFINE S == Range(log)
    <3>1. log \in Seq(S)
      BY <2>1
    <3>. HIDE DEF S
    <3>2. Append(log, Stamp) \in Seq(S \union {Stamp})
      BY <3>1
    <3>. QED
      BY <3>2 DEF S
  <2>. QED
    BY <1>1, <2>1, <2>2, SeqOfRange
<1>6. {thread_ptr', next_thread'} \ {Null} \subseteq ListMembers
  BY <1>1 DEF IInv, ListSound, list
<1>. QED
  BY <1>1, <1>3, <1>4, <1>5, <1>6, QuietStep DEF threads, list

LEMMA ReapStep ==
  ASSUME IInv, Reap
  PROVE  IInv'
<1>1. /\ main = "reap" /\ next_thread = Null
      /\ thread_ptr # Null => thread_ptr \in ListMembers
      /\ UNCHANGED <<retval, accepted, head, next, alloc, threads, network, log_mutex, device, signals>>
  BY DEF Reap, MainStep, IInv, Pointers, ListSound
<1>2. \/ main' = "loop" /\ thread_ptr = Null /\ UNCHANGED <<thread_ptr, next_thread>>
      \/ main' = "join" /\ thread_ptr # Null /\ next_thread' = next[thread_ptr] /\ UNCHANGED thread_ptr
      \/ main' = "reap" /\ thread_ptr # Null /\ thread_ptr' = next[thread_ptr] /\ UNCHANGED next_thread
  BY <1>1 DEF Reap
<1>3. thread_ptr # Null =>
        /\ next[thread_ptr] \in Structs \union {Null}
        /\ next[thread_ptr] # Null => next[thread_ptr] \in ListMembers
  BY <1>1, OnList DEF IInv, TypeOK
<1>4. TypeOK'
  BY <1>1, <1>2, <1>3 DEF IInv, TypeOK, MainLabels, threads, network, device, signals
<1>5. Pointers'
  BY <1>1, <1>2 DEF IInv, Pointers, Starting
<1>6. log' \in Seq(Range(log'))
  BY <1>1 DEF IInv, device
<1>7. main' # "loop" => {thread_ptr', next_thread'} \ {Null} \subseteq ListMembers
  BY <1>1, <1>2, <1>3
<1>. QED
  BY <1>1, <1>2, <1>4, <1>5, <1>6, <1>7, QuietStep DEF threads

(* The list is empty, and so is the heap.                                  *)
LEMMA ExitStep ==
  ASSUME IInv, Exit
  PROVE  IInv'
<1>1. /\ main = "stop" /\ main' = "exited" /\ head = Null /\ thread_ptr' = Null
      /\ log' \in {log, <<>>}
      /\ UNCHANGED <<retval, accepted, head, next, alloc, next_thread, threads, network,
                     log_mutex, pending, signals>>
  BY DEF Exit
<1>2. alloc = {}
  <2>1. Members(head, next) = {}
    BY <1>1, EmptyList
  <2>. QED
    BY <1>1, <2>1 DEF IInv, ListSound, ListMembers
<1>3. log' \in Seq(Range(log'))
  <2>1. <<>> \in Seq(Range(<<>>)) /\ log \in Seq(Range(log))
    BY SeqOfRange DEF IInv
  <2>. QED
    BY <1>1, <2>1
<1>4. UseDevice => Len(log') <= N
  BY <1>1, LogAssumption DEF Exit, IInv, TypeOK
<1>5. TypeOK'
  BY <1>1, <1>4 DEF IInv, TypeOK, MainLabels, Over, threads, network, signals
<1>6. Pointers'
  BY <1>1, <1>2 DEF IInv, Pointers, Starting
<1>. QED
  BY <1>1, <1>3, <1>5, <1>6, QuietStep DEF threads

(* A new struct is allocated, its thread runs, and it is not yet on the list. *)
LEMMA CreateStep ==
  ASSUME IInv, Create
  PROVE  IInv'
<1>1. /\ main = "create"
      /\ accepted' = NoConn
      /\ UNCHANGED <<head, next, next_thread, network, log_mutex, device, signals>>
  BY DEF Create, MainStep
<1>2. log' \in Seq(Range(log')) /\ (log \in Seq(Range(log)))'
  BY <1>1 DEF IInv, device
<1>3. ASSUME NEW t \in Structs \ alloc,
             alloc' = alloc \union {t},
             worker' = [worker EXCEPT ![t] = "recv"],
             thread_complete' = [thread_complete EXCEPT ![t] = FALSE],
             thread_ptr' = t, main' = "insert", retval' = retval
      PROVE  IInv'
  <2>1. TypeOK'
    BY <1>1, <1>3 DEF IInv, TypeOK, MainLabels, WorkerLabels, network, device, signals
  <2>2. Pointers'
    BY <1>1, <1>3 DEF IInv, Pointers, Starting
  <2>3. worker[t] = "none"
    BY <1>1 DEF IInv, ListSound
  <2>4. ASSUME NEW u \in Structs
        PROVE  worker'[u] = IF u = t THEN "recv" ELSE worker[u]
    BY <1>3 DEF IInv, TypeOK
  <2>5. LogMutexHeld'
    <3>1. log_mutex' = log_mutex
      BY <1>1
    <3>. QED
      BY <2>3, <2>4, <3>1 DEF IInv, LogMutexHeld
  <2>6. Members(head', next') = alloc' \ {thread_ptr'} /\ Linear(head', next')
    BY <1>1, <1>3 DEF IInv, ListSound, ListMembers
  <2>7. alloc' = {u \in Structs : worker'[u] # "none"}
    BY <1>1, <1>3, <2>4 DEF IInv, ListSound
  <2>8. ListSound'
    BY <1>3, <2>6, <2>7, ListSoundNext
  <2>. QED
    BY <1>2, <2>1, <2>2, <2>5, <2>8 DEF IInv
<1>4. CASE retval' = -1 /\ main' = "loop" /\ UNCHANGED <<alloc, threads, thread_ptr>>
  <2>1. TypeOK'
    BY <1>1, <1>4 DEF IInv, TypeOK, MainLabels, threads, network, device, signals
  <2>2. Pointers'
    BY <1>1, <1>4 DEF IInv, Pointers, Starting
  <2>. QED
    BY <1>1, <1>2, <1>4, <2>1, <2>2, QuietStep DEF threads
<1>. QED
  BY <1>3, <1>4 DEF Create

LEMMA InsertStep ==
  ASSUME IInv, Insert
  PROVE  IInv'
<1>1. /\ main = "insert" /\ main' \in {"reap", "timer"}
      /\ main' = "timer" => ~UseDevice
      /\ next' = [next EXCEPT ![thread_ptr] = head] /\ head' = thread_ptr
      /\ UNCHANGED <<retval, accepted, alloc, thread_ptr, next_thread, threads, network,
                     log_mutex, device, signals>>
  BY DEF Insert, SlistInsertHead, MainStep
<1>2. /\ thread_ptr \in alloc /\ thread_ptr \in Structs /\ thread_ptr \notin ListMembers
      /\ ListMembers = alloc \ {thread_ptr} /\ next_thread = Null
  BY <1>1 DEF IInv, Pointers, ListSound, TypeOK
<1>3. /\ head \in Pointer /\ next \in [Structs -> Pointer] /\ Linear(head, next)
  BY <1>1 DEF IInv, TypeOK, ListSound, Pointer
<1>4. /\ Members(head', next') = ListMembers \union {thread_ptr}
      /\ Linear(head', next')
  <2>. DEFINE m == [next EXCEPT ![thread_ptr] = head]
  <2>1. thread_ptr \in Structs /\ thread_ptr \notin Members(head, next)
    BY <1>2 DEF ListMembers
  <2>2. Members(thread_ptr, m) = Members(head, next) \union {thread_ptr} /\ Linear(thread_ptr, m)
    BY <1>3, <2>1, InsertHeadMembers
  <2>3. next' = m /\ head' = thread_ptr
    BY <1>1
  <2>. HIDE DEF m
  <2>. QED
    BY <2>2, <2>3 DEF ListMembers
<1>5. TypeOK'
  <2>1. next' \in [Structs -> Structs \union {Null}]
    BY <1>1, <1>3 DEF Pointer
  <2>. QED
    BY <1>1, <1>2, <2>1 DEF IInv, TypeOK, MainLabels, threads, network, device, signals
<1>6. Pointers'
  BY <1>1, <1>2 DEF IInv, Pointers, Starting
<1>7. ListSound'
  <2>1. alloc' = {t \in Structs : worker'[t] # "none"}
    BY <1>1 DEF IInv, ListSound, threads
  <2>2. Members(head', next') = alloc'
    BY <1>1, <1>2, <1>4
  <2>3. {thread_ptr', next_thread'} \ {Null} \subseteq Members(head', next')
    BY <1>1, <1>2, <1>4
  <2>. QED
    BY <1>1, <1>4, <2>1, <2>2, <2>3, ListSoundNext
<1>8. LogMutexHeld'
  BY <1>1 DEF IInv, LogMutexHeld, threads
<1>9. (log \in Seq(Range(log)))'
  BY <1>1 DEF IInv, device
<1>. QED
  BY <1>5, <1>6, <1>7, <1>8, <1>9 DEF IInv

(***************************************************************************)
(* Joining the thread of t and taking t off the list keep the invariant,   *)
(* if the pointers of main stay on the list.                               *)
(***************************************************************************)
LEMMA JoinStep ==
  ASSUME IInv, main \in {"join", "stop"}, main' \in {"reap", "stop"},
         NEW t \in ListMembers, Join(t),
         head' \in Pointer, next' \in [Structs -> Pointer],
         Members(head', next') = ListMembers \ {t}, Linear(head', next'),
         thread_ptr' \in Pointer, next_thread' = Null,
         main' = "reap" /\ thread_ptr' # Null => thread_ptr' \in ListMembers \ {t},
         UNCHANGED <<retval, accepted, network, log_mutex, device, signals>>
  PROVE  IInv'
<1>1. t \in Structs /\ worker[t] = "done"
  BY OnList DEF Join
<1>2. ASSUME NEW u \in Structs
      PROVE  worker'[u] = IF u = t THEN "none" ELSE worker[u]
  BY DEF Join, IInv, TypeOK
<1>3. TypeOK'
  <2>1. /\ worker' \in [Structs -> WorkerLabels]
        /\ thread_complete' \in [Structs -> BOOLEAN]
        /\ alloc' \subseteq Structs
    BY <1>1 DEF Join, IInv, TypeOK, WorkerLabels
  <2>2. {head', thread_ptr', next_thread'} \subseteq Structs \union {Null}
    BY DEF Pointer
  <2>3. next' \in [Structs -> Structs \union {Null}]
    BY DEF Pointer
  <2>. QED
    BY <2>1, <2>2, <2>3 DEF IInv, TypeOK, MainLabels, network, device, signals
<1>4. Pointers'
  BY DEF Pointers, Starting
<1>5. LogMutexHeld'
  BY <1>1, <1>2 DEF IInv, LogMutexHeld
<1>6. ListSound'
  <2>1. alloc' = {u \in Structs : worker'[u] # "none"}
    BY <1>1, <1>2 DEF IInv, ListSound, Join
  <2>2. Members(head', next') = alloc'
    BY DEF IInv, ListSound, Join
  <2>. QED
    BY <2>1, <2>2, ListSoundNext
<1>7. (log \in Seq(Range(log)))'
  BY DEF IInv, device
<1>. QED
  BY <1>3, <1>4, <1>5, <1>6, <1>7 DEF IInv

LEMMA StopJoinStep ==
  ASSUME IInv, StopJoin
  PROVE  IInv'
<1>1. /\ main = "stop" /\ main' = "stop" /\ head # Null /\ Join(head)
      /\ head' = next[head] /\ next' = [next EXCEPT ![head] = Null]
      /\ UNCHANGED <<retval, accepted, thread_ptr, next_thread, network, log_mutex, device, signals>>
  BY DEF StopJoin, SlistRemoveHead, control, MainStep
<1>2. /\ head \in Structs /\ next \in [Structs -> Pointer] /\ Linear(head, next)
      /\ head \in ListMembers /\ next_thread = Null /\ thread_ptr \in Pointer
  BY <1>1, OnList DEF IInv, TypeOK, ListSound, Pointers, Pointer
<1>3. Members(head', next') = ListMembers \ {head} /\ Linear(head', next')
  BY <1>1, <1>2, RemoveHeadMembers DEF ListMembers
<1>4. head' \in Pointer /\ next' \in [Structs -> Pointer]
  BY <1>1, <1>2 DEF Pointer
<1>. QED
  BY <1>1, <1>2, <1>3, <1>4, JoinStep

(* The element SLIST_REMOVE looks for is found, and is the only one.       *)
LEMMA SlistRemoveMembers ==
  ASSUME IInv, main = "join", NEW e \in ListMembers, SlistRemove(e)
  PROVE  /\ head' \in Pointer /\ next' \in [Structs -> Pointer]
         /\ Members(head', next') = ListMembers \ {e}
         /\ Linear(head', next')
<1>1. /\ head \in Pointer /\ next \in [Structs -> Pointer] /\ Linear(head, next)
      /\ ListMembers = alloc /\ e \in Structs /\ alloc \subseteq Structs
  BY OnList DEF IInv, TypeOK, ListSound, Pointer
<1>2. CASE head = e
  <2>1. head' = next[head] /\ next' = [next EXCEPT ![head] = Null]
    BY <1>2 DEF SlistRemove, SlistRemoveHead
  <2>2. head' \in Pointer /\ next' \in [Structs -> Pointer]
    BY <1>1, <1>2, <2>1 DEF Pointer
  <2>3. Members(head', next') = ListMembers \ {head} /\ Linear(head', next')
    BY <1>1, <1>2, <2>1, RemoveHeadMembers DEF ListMembers
  <2>. QED
    BY <1>2, <2>2, <2>3
<1>3. CASE head # e
  <2>. DEFINE p == CHOOSE t \in alloc : next[t] = e
  <2>1. \E t \in alloc : next[t] = e
    BY <1>1, <1>3, HasPredecessor DEF ListMembers
  <2>2. p \in ListMembers /\ p \in Structs /\ next[p] = e
    BY <1>1, <2>1
  <2>3. next' = [next EXCEPT ![p] = next[e], ![e] = Null] /\ head' = head
    BY <1>3 DEF SlistRemove
  <2>. HIDE DEF p
  <2>4. head' \in Pointer /\ next' \in [Structs -> Pointer]
    BY <1>1, <2>2, <2>3 DEF Pointer
  <2>5. Members(head', next') = ListMembers \ {e} /\ Linear(head', next')
    <3>1. e \in Members(head, next) /\ p \in Members(head, next)
      BY <2>2 DEF ListMembers
    <3>2. /\ Members(head, Unlink(next, p, e)) = Members(head, next) \ {e}
          /\ Linear(head, Unlink(next, p, e))
      BY <1>1, <1>3, <2>2, <3>1, RemoveMembers
    <3>3. next' = Unlink(next, p, e)
      BY <2>3 DEF Unlink
    <3>. QED
      BY <2>3, <3>2, <3>3 DEF ListMembers
  <2>. QED
    BY <2>4, <2>5
<1>. QED
  BY <1>2, <1>3

LEMMA ReapJoinStep ==
  ASSUME IInv, ReapJoin
  PROVE  IInv'
<1>1. /\ main = "join" /\ main' = "reap" /\ Join(thread_ptr) /\ SlistRemove(thread_ptr)
      /\ thread_ptr' = next_thread /\ next_thread' = Null
      /\ UNCHANGED <<retval, accepted, network, log_mutex, device, signals>>
  BY DEF ReapJoin, MainStep
<1>2. /\ thread_ptr \in ListMembers
      /\ next_thread # Null => next_thread \in ListMembers
      /\ next_thread = next[thread_ptr] /\ next_thread \in Pointer
  BY <1>1 DEF IInv, TypeOK, ListSound, Pointers, Pointer
<1>3. next_thread # thread_ptr
  <2>1. head \in Pointer /\ next \in [Structs -> Pointer] /\ Linear(head, next)
    BY <1>1 DEF IInv, TypeOK, ListSound, Pointer
  <2>. QED
    BY <1>2, <2>1, NoSelfLoop DEF ListMembers
<1>4. /\ head' \in Pointer /\ next' \in [Structs -> Pointer]
      /\ Members(head', next') = ListMembers \ {thread_ptr}
      /\ Linear(head', next')
  BY <1>1, <1>2, SlistRemoveMembers
<1>. QED
  BY <1>1, <1>2, <1>3, <1>4, JoinStep

-------------------------------------------------------------------------------
(***************************************************************************)
(* The workers.                                                            *)
(***************************************************************************)

(***************************************************************************)
(* A step of a running worker keeps the invariant if it leaves log_mutex   *)
(* with that worker exactly when it is about to write, and takes it from   *)
(* no other.                                                               *)
(***************************************************************************)
LEMMA WorkerMoves ==
  ASSUME IInv, NEW t \in Structs, NEW label \in WorkerLabels \ {"none"},
         worker[t] # "none",
         worker' = [worker EXCEPT ![t] = label],
         thread_complete' \in [Structs -> BOOLEAN],
         log_mutex' \in Structs \union {NoThread},
         log_mutex' = t <=> label = "write",
         \A u \in Structs \ {t} : log_mutex' = u <=> log_mutex = u,
         log' \in Seq(Range(log')), UseDevice => Len(log') <= N,
         WorkerStep
  PROVE  IInv'
<1>1. UNCHANGED <<main, retval, accepted, signal_caught, shut, timer_fired, head, next, alloc,
                  thread_ptr, next_thread, backlog, peer>>
  BY DEF WorkerStep, control, signals, list
<1>2. ASSUME NEW u \in Structs
      PROVE  worker'[u] = IF u = t THEN label ELSE worker[u]
  BY DEF IInv, TypeOK
<1>3. TypeOK'
  <2>1. worker' \in [Structs -> WorkerLabels]
    BY DEF IInv, TypeOK
  <2>. QED
    BY <1>1, <2>1 DEF IInv, TypeOK
<1>4. Pointers'
  BY <1>1 DEF IInv, Pointers
<1>5. LogMutexHeld'
  BY <1>2 DEF IInv, LogMutexHeld
<1>6. ListSound'
  <2>1. main # "killed" => alloc' = {u \in Structs : worker'[u] # "none"}
    BY <1>1, <1>2 DEF IInv, ListSound
  <2>. QED
    BY <1>1, <2>1, ListSoundNext DEF IInv, ListSound, ListMembers
<1>7. (log \in Seq(Range(log)))'
  BY DEF Range
<1>. QED
  BY <1>3, <1>4, <1>5, <1>6, <1>7 DEF IInv

(* Steps that do not concern the log.                                      *)
LEMMA ElsewhereStep ==
  ASSUME IInv, NEW t \in Structs, NEW label \in WorkerLabels \ {"none", "write"},
         worker[t] \notin {"none", "write"},
         worker' = [worker EXCEPT ![t] = label],
         thread_complete' \in [Structs -> BOOLEAN],
         UNCHANGED <<log_mutex, device>>, WorkerStep
  PROVE  IInv'
<1>1. log_mutex # t
  BY DEF IInv, LogMutexHeld
<1>2. log' = log /\ log' \in Seq(Range(log')) /\ (UseDevice => Len(log') <= N)
  BY DEF device, IInv, TypeOK
<1>3. log_mutex' \in Structs \union {NoThread}
  BY DEF IInv, TypeOK
<1>. QED
  BY <1>1, <1>2, <1>3, WorkerMoves

LEMMA ReceiveStep ==
  ASSUME IInv, NEW t \in Structs, Receive(t)
  PROVE  IInv'
<1>1. worker[t] = "recv" /\ UNCHANGED <<log_mutex, device>> /\ WorkerStep
  BY DEF Receive, At
<1>2. \E label \in {"recv", "ioctl", "lock"} : \E frame : Goto(t, label, frame)
  <2>1. \A frame : AfterLoop(frame) \in {"ioctl", "lock"}
    BY DEF AfterLoop
  <2>2. CASE RecvStops(t)
    BY <2>1, <2>2 DEF RecvStops
  <2>3. ASSUME NEW k, Recv(t, k)
        PROVE  \E label \in {"recv", "ioctl", "lock"} : \E frame : Goto(t, label, frame)
    <3>1. \E frame, ends : \/ Goto(t, IF ends THEN AfterLoop(frame) ELSE "recv", frame)
                           \/ Goto(t, AfterLoop(frame), frame)
      BY <2>3, Zenon DEF Recv
    <3>. QED
      BY <2>1, <3>1
  <2>. QED
    BY <2>2, <2>3 DEF Receive
<1>3. PICK label \in {"recv", "ioctl", "lock"} :
        worker' = [worker EXCEPT ![t] = label] /\ thread_complete' = thread_complete
  BY <1>2 DEF Goto
<1>. QED
  BY <1>1, <1>3, ElsewhereStep DEF WorkerLabels, IInv, TypeOK

LEMMA LockLogStep ==
  ASSUME IInv, NEW t \in Structs, LockLog(t)
  PROVE  IInv'
<1>1. /\ worker[t] = "lock" /\ thread_complete' = thread_complete
      /\ UNCHANGED device /\ WorkerStep
      /\ \/ log_mutex = NoThread /\ log_mutex' = t /\ worker' = [worker EXCEPT ![t] = "write"]
         \/ log_mutex' = log_mutex /\ worker' = [worker EXCEPT ![t] = "read"]
  BY DEF LockLog, At, Goto
<1>2. CASE log_mutex = NoThread /\ log_mutex' = t /\ worker' = [worker EXCEPT ![t] = "write"]
  <2>1. \A u \in Structs \ {t} : log_mutex' = u <=> log_mutex = u
    BY <1>2, AddressAssumption
  <2>2. log' \in Seq(Range(log')) /\ (UseDevice => Len(log') <= N)
    BY <1>1 DEF IInv, TypeOK, device
  <2>. QED
    BY <1>1, <1>2, <2>1, <2>2, WorkerMoves DEF WorkerLabels, IInv, TypeOK
<1>3. CASE log_mutex' = log_mutex /\ worker' = [worker EXCEPT ![t] = "read"]
  BY <1>1, <1>3, ElsewhereStep DEF WorkerLabels, IInv, TypeOK
<1>. QED
  BY <1>1, <1>2, <1>3

(* The writer is the one that holds log_mutex, and gives it back.          *)
LEMMA WriteLogStep ==
  ASSUME IInv, NEW t \in Structs, WriteLog(t)
  PROVE  IInv'
<1>1. /\ worker[t] = "write" /\ log_mutex' = NoThread /\ AppendLog(Written(local[t]))
      /\ worker' = [worker EXCEPT ![t] = "read"] /\ thread_complete' = thread_complete
      /\ WorkerStep
  BY DEF WriteLog, At, Goto
<1>2. log_mutex = t
  BY <1>1 DEF IInv, LogMutexHeld
<1>3. \A u \in Structs \ {t} : log_mutex' = u <=> log_mutex = u
  BY <1>1, <1>2, AddressAssumption
<1>4. log' \in Seq(Range(log')) /\ (UseDevice => Len(log') <= N)
  <2>. DEFINE S == Range(log)
              b == Written(local[t])
  <2>1. log \in Seq(S) /\ (UseDevice => Len(log) <= N)
    BY DEF IInv, TypeOK
  <2>2. IF UseDevice THEN log' = LogAfter(log, pending, b) ELSE log' = Append(log, b)
    BY <1>1 DEF AppendLog
  <2>. HIDE DEF S, b
  <2>3. CASE UseDevice
    BY <2>1, <2>2, <2>3, LogAfterBound
  <2>4. CASE ~UseDevice
    <3>1. log' \in Seq(S \union {b})
      BY <2>1, <2>2, <2>4
    <3>. QED
      BY <2>4, <3>1, SeqOfRange
  <2>. QED
    BY <2>3, <2>4
<1>. QED
  BY <1>1, <1>3, <1>4, WorkerMoves, AddressAssumption DEF WorkerLabels, IInv, TypeOK

(* A crash leaves a dead process, of which only the types are said.        *)
LEMMA CrashStep ==
  ASSUME IInv, NEW t \in Structs, Crash(t)
  PROVE  IInv'
<1>1. /\ main' = "killed"
      /\ UNCHANGED <<retval, accepted, signals, list, threads, log_mutex, device, network>>
  BY DEF Crash
<1>2. TypeOK'
  BY <1>1 DEF IInv, TypeOK, MainLabels, Over, signals, list, threads, device, network
<1>3. Pointers'
  BY <1>1 DEF Pointers, Starting
<1>4. log' \in Seq(Range(log'))
  BY <1>1 DEF IInv, device
<1>. QED
  BY <1>1, <1>2, <1>3, <1>4, QuietStep DEF list, threads

LEMMA OneWorkerStep ==
  ASSUME IInv, NEW t \in Structs, Worker(t)
  PROVE  IInv'
<1>1. CASE Ioctl(t)
  BY <1>1, ElsewhereStep DEF Ioctl, At, Goto, WorkerLabels, IInv, TypeOK
<1>2. CASE ReadBack(t)
  <2>1. /\ worker[t] = "read" /\ UNCHANGED <<log_mutex, device>> /\ WorkerStep
        /\ thread_complete' = thread_complete
        /\ \/ worker' = [worker EXCEPT ![t] = "close"]
           \/ worker' = [worker EXCEPT ![t] = "read"]
    BY <1>2 DEF ReadBack, At, Goto
  <2>. QED
    BY <2>1, ElsewhereStep DEF WorkerLabels, IInv, TypeOK
<1>3. CASE CloseClient(t)
  BY <1>3, ElsewhereStep DEF CloseClient, At, Goto, WorkerLabels, IInv, TypeOK
<1>4. CASE SetComplete(t)
  <2>1. thread_complete' \in [Structs -> BOOLEAN]
    BY <1>4 DEF SetComplete, IInv, TypeOK
  <2>. QED
    BY <1>4, <2>1, ElsewhereStep DEF SetComplete, At, WorkerLabels
<1>5. CASE ThreadReturn(t)
  BY <1>5, ElsewhereStep DEF ThreadReturn, At, Goto, WorkerLabels, IInv, TypeOK
<1>. QED
  BY <1>1, <1>2, <1>3, <1>4, <1>5, ReceiveStep, LockLogStep, WriteLogStep, CrashStep DEF Worker

-------------------------------------------------------------------------------
(***************************************************************************)
(* The theorems.                                                           *)
(***************************************************************************)

LEMMA MainThreadStep == IInv /\ Main => IInv'
<1>. SUFFICES ASSUME IInv, Main PROVE IInv'
  OBVIOUS
<1>1. CASE Register \/ OpenSocket \/ Daemonise \/ Listen
  BY <1>1, BeginStep DEF Register, OpenSocket, Daemonise, Listen, Starting
<1>. QED
  BY <1>1, LoopStep, AcceptStep, CreateStep, InsertStep, TimerStep, PrintTimestampStep,
     ReapStep, ReapJoinStep, StopJoinStep, ExitStep DEF Main

LEMMA StutterStep == IInv /\ UNCHANGED vars => IInv'
<1>. SUFFICES ASSUME IInv, UNCHANGED vars PROVE IInv'
  OBVIOUS
<1>. QED
  BY OutsideStep DEF vars, control, signals, network, IInv, TypeOK

LEMMA NextStep == IInv /\ [Next]_vars => IInv'
BY MainThreadStep, SignalStep, ClientStep, OneWorkerStep, StutterStep DEF Next, Ended

(***************************************************************************)
(* The invariant holds in both builds, whatever clients, signals and the   *)
(* timer do, and whichever calls fail.                                     *)
(***************************************************************************)
THEOREM Invariance == Spec => []IInv
BY InitInv, NextStep, PTL DEF Spec

(* The server's state has its types.                                       *)
THEOREM TypeCorrect == Spec => []TypeOK
BY Invariance, PTL DEF IInv

(***************************************************************************)
(* While main inserts, walks and removes and any number of workers come to *)
(* their ends, the list of main() holds every allocated thread_data_s once *)
(* and nothing else: no freed struct is touched and none is lost.          *)
(***************************************************************************)
THEOREM ListIsSound == Spec => []ListSound
BY Invariance, PTL DEF IInv

(***************************************************************************)
(* main returns only when every thread it has created has been joined and  *)
(* nobody holds log_mutex, wherever the signal or the failure met it.      *)
(***************************************************************************)
THEOREM ExitsClean == Spec => []ExitIsClean
<1>1. IInv => ExitIsClean
  <2>. SUFFICES ASSUME IInv, main = "exited" PROVE alloc = {} /\ log_mutex = NoThread
    BY DEF ExitIsClean
  <2>1. alloc = {}
    BY DEF IInv, Pointers
  <2>2. \A t \in Structs : worker[t] = "none"
    BY <2>1 DEF IInv, ListSound
  <2>3. log_mutex = NoThread
    BY <2>2 DEF IInv, LogMutexHeld, TypeOK
  <2>. QED
    BY <2>1, <2>3
<1>. QED
  BY <1>1, Invariance, PTL

===============================================================================
