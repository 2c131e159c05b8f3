---------------------------- MODULE ConsoleProofs ----------------------------
(***************************************************************************)
(* The command thread next to the main thread, for any number of clients   *)
(* and names: it never reads behind a buffer, nor an unwritten slot of the *)
(* current one, although it takes no lock.                                 *)
(***************************************************************************)
EXTENDS ServerConsole, SequenceTheorems, TLAPS

L == INSTANCE DynArrLemmas WITH Val <- Fds

\* The operators of D and those the lemmas of L are about are the same.
LEMMA SameOps ==
  /\ \A x : D!IsDynArr(x) = L!IsDynArr(x)
  /\ \A x, m : D!Reserve(x, m) = L!Reserve(x, m)
  /\ \A x, m : D!RemoveIdx(x, m) = L!RemoveIdx(x, m)
  /\ \A x, m : D!Resize(x, m) = L!Resize(x, m)
  /\ D!InitZero = L!InitZero
  BY DEF D!IsDynArr, L!IsDynArr, D!Reserve, L!Reserve, D!RemoveIdx, L!RemoveIdx,
         D!Resize, L!Resize, D!InitZero, L!InitZero

-----------------------------------------------------------------------------
(***************************************************************************)
(* The inductive invariant.  The slots in use are written, and so is the   *)
(* one that is about to be counted.  A walk that has seen the length stays *)
(* below it; since then the buffer did not shrink, and no slot that was    *)
(* written became unwritten, whatever was inserted and taken out.          *)
(***************************************************************************)
SlotsWritten ==
  /\ \A k \in 0 .. clients.len - 1 : clients.buf[k] # Junk
  /\ mt = "grown" => clients.len < clients.cap /\ freshFd \in Fds
  /\ mt = "written" => clients.len < clients.cap /\ clients.buf[clients.len] # Junk
  /\ mt = "shifted" => clients.len > 0
  /\ freshFd > 0

WalkInside ==
  /\ at \in {"load", "read"} => /\ s < bound /\ bound <= clients.cap
                                /\ \A k \in 0 .. bound - 1 : clients.buf[k] # Junk
  /\ at = "read" => bound <= held

IInv == TypeOK /\ SlotsWritten /\ WalkInside /\ ListMatchesChosen

LEMMA InvImplies == IInv => ConsoleReadsRight
<1> SUFFICES ASSUME IInv, at = "read"
             PROVE  s < held /\ (held = clients.cap => clients.buf[s] # Junk)
  BY DEF IInv, ConsoleReadsRight, WalkReadsWritten
<1>1. s \in Nat /\ bound \in Nat /\ held \in Nat
  BY DEF IInv, TypeOK
<1>2. s < bound /\ bound <= held /\ \A k \in 0 .. bound - 1 : clients.buf[k] # Junk
  BY DEF IInv, WalkInside
<1> QED BY <1>1, <1>2

LEMMA InitInv == Init => IInv
<1> SUFFICES ASSUME Init PROVE IInv
  OBVIOUS
<1>1. D!IsDynArr(clients) /\ clients.len = 0 /\ freshFd = 1
  BY L!InitZeroOK, SameOps DEF Init, D!InitZero
<1>2. /\ path \in Names \cup {Junk, "ls"} /\ sof \in Seq({"path"}) /\ seen \in Fds \cup {Junk}
      /\ opened \in Seq(Names \cup {Junk, "ls"}) /\ chosen \in Seq(Names)
  BY EmptySeq, Zenon DEF Init
<1>3. TypeOK
  <2>1. /\ at = "cmd" /\ word = "none" /\ i = 0 /\ s = 0 /\ bound = 0 /\ held = 0
        /\ exitFlag = FALSE /\ mt = "test" /\ freshFd = 1
    BY Zenon DEF Init
  <2>2. {i, s, bound, held} \subseteq Nat
    BY ONLY <2>1
  <2>3. exitFlag \in BOOLEAN /\ freshFd \in Nat
    BY ONLY <2>1
  <2> QED BY ONLY <1>1, <1>2, <2>1, <2>2, <2>3, Zenon DEF TypeOK
<1> QED BY <1>1, <1>3 DEF IInv, SlotsWritten, WalkInside, ListMatchesChosen, Init

-----------------------------------------------------------------------------
(* The main thread. *)

\* Written slots stay written, and the buffer does not shrink.
Grows == /\ clients'.cap >= clients.cap
         /\ \A k \in 0 .. clients.cap - 1 : clients.buf[k] # Junk => clients'.buf[k] # Junk

MtType == mt \in {"test", "accept", "grown", "written", "filter", "shifted", "exited"}

LEMMA MainArray ==
  ASSUME D!IsDynArr(clients), MtType, freshFd \in Nat, SlotsWritten, Main
  PROVE  D!IsDynArr(clients') /\ MtType' /\ freshFd' \in Nat /\ SlotsWritten' /\ Grows
<1>0. /\ clients.len \in Nat /\ clients.cap \in Nat /\ clients.len <= clients.cap
      /\ clients = [buf |-> clients.buf, len |-> clients.len, cap |-> clients.cap]
      /\ DOMAIN clients.buf = 0 .. clients.cap - 1
      /\ \A k \in 0 .. clients.cap - 1 : clients.buf[k] \in Fds \cup {Junk}
  BY DEF D!IsDynArr
<1>f. \A f \in Fds : f # Junk /\ f \in Nat /\ f > 0
  BY ConsoleAssumption DEF ConsoleAssumption, Fds
<1>1. CASE MainTest
  BY <1>0, <1>1 DEF MainTest, MtType, SlotsWritten, Grows
<1>2. CASE Grow
  <2>1. CASE clients' = clients /\ mt' = "filter"
    BY <1>0, <1>2, <2>1 DEF Grow, MtType, SlotsWritten, Grows
  <2>2. CASE freshFd <= MaxFd /\ clients' = Grown(clients) /\ mt' = "grown"
    <3>1. clients' = L!Reserve(clients, clients.len + 1)
      BY <2>2, SameOps DEF Grown
    <3>2. /\ D!IsDynArr(clients') /\ clients'.len = clients.len
          /\ clients'.cap >= clients.len + 1 /\ clients'.cap >= clients.cap
          /\ \A k \in 0 .. clients.cap - 1 : clients'.buf[k] = clients.buf[k]
      <4>1. clients.len + 1 \in Nat /\ L!IsDynArr(clients)
        BY <1>0, SameOps
      <4> QED BY <3>1, <4>1, L!ReserveOK, SameOps
    <3>3. clients'.cap \in Nat
      BY <3>2 DEF D!IsDynArr
    <3>4. freshFd \in Fds /\ UNCHANGED freshFd
      BY <1>2, <2>2, ConsoleAssumption DEF Grow, Fds, SlotsWritten, ConsoleAssumption
    <3> QED BY <1>0, <2>2, <3>2, <3>3, <3>4 DEF MtType, SlotsWritten, Grows
  <2> QED BY <1>2, <2>1, <2>2 DEF Grow
<1>3. CASE WriteSlot
  <2>1. /\ mt = "grown" /\ mt' = "written" /\ freshFd' = freshFd + 1
        /\ clients.len < clients.cap /\ freshFd \in Fds /\ freshFd # Junk
    BY <1>3, <1>f DEF WriteSlot, SlotsWritten
  <2> DEFINE nb == [clients.buf EXCEPT ![clients.len] = freshFd]
  <2>2. clients' = [buf |-> nb, len |-> clients.len, cap |-> clients.cap]
    BY <1>0, <1>3 DEF WriteSlot
  <2>3. /\ DOMAIN nb = 0 .. clients.cap - 1
        /\ \A k \in 0 .. clients.cap - 1 : nb[k] = IF k = clients.len THEN freshFd ELSE clients.buf[k]
    BY <1>0
  <2> HIDE DEF nb
  <2>4. D!IsDynArr(clients')
    BY <1>0, <2>1, <2>2, <2>3 DEF D!IsDynArr
  <2>5. Grows
    BY <1>0, <2>1, <2>2, <2>3 DEF Grows
  <2>6. SlotsWritten' /\ MtType' /\ freshFd' \in Nat
    BY <1>0, <2>1, <2>2, <2>3 DEF SlotsWritten, MtType
  <2> QED BY <2>4, <2>5, <2>6
<1>4. CASE CountSlot
  <2>1. /\ mt = "written" /\ mt' = "filter" /\ UNCHANGED freshFd
        /\ clients.len < clients.cap /\ clients.buf[clients.len] # Junk
    BY <1>4 DEF CountSlot, SlotsWritten
  <2>2. clients' = [buf |-> clients.buf, len |-> clients.len + 1, cap |-> clients.cap]
    BY <1>0, <1>4 DEF CountSlot
  <2>3. D!IsDynArr(clients')
    BY <1>0, <2>1, <2>2 DEF D!IsDynArr
  <2>4. SlotsWritten' /\ MtType' /\ freshFd' \in Nat /\ Grows
    BY <1>0, <2>1, <2>2 DEF SlotsWritten, MtType, Grows
  <2> QED BY <2>3, <2>4
<1>5. CASE Squeeze
  <2>1. CASE clients' = clients /\ mt' = "test"
    BY <1>0, <1>5, <2>1 DEF Squeeze, MtType, SlotsWritten, Grows
  <2>2. CASE /\ mt' = "shifted"
             /\ \E k \in 0 .. clients.len - 1 :
                  clients' = [D!RemoveIdx(clients, k) EXCEPT !.len = clients.len]
    <3>1. PICK k \in 0 .. clients.len - 1 :
            clients' = [D!RemoveIdx(clients, k) EXCEPT !.len = clients.len]
      BY <2>2
    <3> DEFINE nb == [j \in 0 .. clients.cap - 1 |->
                        IF k <= j /\ j + 1 < clients.len THEN clients.buf[j + 1] ELSE clients.buf[j]]
    <3>2. D!RemoveIdx(clients, k) = [buf |-> nb, len |-> clients.len - 1, cap |-> clients.cap]
      BY <1>0 DEF D!RemoveIdx
    <3>3. \A j \in 0 .. clients.cap - 1 :
            nb[j] = IF k <= j /\ j + 1 < clients.len THEN clients.buf[j + 1] ELSE clients.buf[j]
      OBVIOUS
    <3>4. DOMAIN nb = 0 .. clients.cap - 1
      OBVIOUS
    <3> HIDE DEF nb
    <3>5. clients' = [buf |-> nb, len |-> clients.len, cap |-> clients.cap]
      BY <3>1, <3>2
    <3>6. \A j \in 0 .. clients.cap - 1 :
            nb[j] \in Fds \cup {Junk} /\ (clients.buf[j] # Junk => nb[j] # Junk)
      <4> TAKE j \in 0 .. clients.cap - 1
      <4>1. CASE k <= j /\ j + 1 < clients.len
        <5>1. /\ j + 1 \in 0 .. clients.len - 1 /\ j + 1 \in 0 .. clients.cap - 1
              /\ nb[j] = clients.buf[j + 1]
          BY <1>0, <3>3, <4>1
        <5> QED BY <1>0, <5>1 DEF SlotsWritten
      <4>2. CASE ~ (k <= j /\ j + 1 < clients.len)
        BY <1>0, <3>3, <4>2
      <4> QED BY <4>1, <4>2
    <3>7. D!IsDynArr(clients')
      BY <1>0, <3>4, <3>5, <3>6 DEF D!IsDynArr
    <3>8. Grows /\ clients.len > 0 /\ UNCHANGED freshFd
      BY <1>0, <1>5, <3>5, <3>6 DEF Grows, Squeeze
    <3>9. SlotsWritten' /\ MtType' /\ freshFd' \in Nat
      BY <1>0, <2>2, <3>5, <3>6, <3>8 DEF SlotsWritten, MtType
    <3> QED BY <3>7, <3>8, <3>9
  <2> QED BY <1>5, <2>1, <2>2 DEF Squeeze
<1>6. CASE Cut
  <2>1. mt = "shifted" /\ mt' = "test" /\ UNCHANGED freshFd /\ clients.len > 0
    BY <1>6 DEF Cut, SlotsWritten
  <2>2. clients' = [buf |-> clients.buf, len |-> clients.len - 1, cap |-> clients.cap]
    <3>1. clients' = L!Resize(clients, clients.len - 1) /\ L!IsDynArr(clients)
      BY <1>6, SameOps DEF Cut
    <3>2. clients.len - 1 \in 0 .. clients.len
      BY <1>0, <2>1
    <3> QED BY <3>1, <3>2, L!ResizeOK
  <2>3. D!IsDynArr(clients')
    BY <1>0, <2>1, <2>2 DEF D!IsDynArr
  <2>4. SlotsWritten' /\ MtType' /\ freshFd' \in Nat /\ Grows
    BY <1>0, <2>1, <2>2 DEF SlotsWritten, MtType, Grows
  <2> QED BY <2>3, <2>4
<1> QED BY <1>1, <1>2, <1>3, <1>4, <1>5, <1>6 DEF Main

LEMMA MainKeeps == ASSUME IInv, Main PROVE IInv'
<1>1. D!IsDynArr(clients') /\ MtType' /\ freshFd' \in Nat /\ SlotsWritten' /\ Grows
  BY MainArray DEF IInv, TypeOK, MtType
<1>2. UNCHANGED <<conVars, exitFlag>>
  BY DEF Main, MainTest, Grow, WriteSlot, CountSlot, Squeeze, Cut
<1>3. TypeOK'
  BY <1>1, <1>2 DEF IInv, TypeOK, MtType, conVars
<1>4. ListMatchesChosen'
  BY <1>2 DEF IInv, ListMatchesChosen, conVars
<1>5. WalkInside'
  <2>1. UNCHANGED <<at, s, bound, held>> /\ bound \in Nat /\ clients.cap \in Nat /\ clients'.cap \in Nat
    BY <1>1, <1>2 DEF conVars, IInv, TypeOK, D!IsDynArr
  <2> QED BY <1>1, <2>1 DEF IInv, WalkInside, Grows
<1> QED BY <1>1, <1>3, <1>4, <1>5 DEF IInv

-----------------------------------------------------------------------------
(* The command thread. *)

LEMMA ConsoleKeeps == ASSUME IInv, Console PROVE IInv'
<1>0. /\ i \in Nat /\ s \in Nat /\ bound \in Nat /\ held \in Nat
      /\ path \in Names \cup {Junk, "ls"}
      /\ sof \in Seq({"path"}) /\ chosen \in Seq(Names)
      /\ opened \in Seq(Names \cup {Junk, "ls"})
      /\ clients.len \in Nat /\ clients.cap \in Nat /\ clients.len <= clients.cap
      /\ \A k \in 0 .. clients.cap - 1 : clients.buf[k] \in Fds \cup {Junk}
  BY DEF IInv, TypeOK, D!IsDynArr
<1>m. mainVars' = mainVars => SlotsWritten'
  BY DEF IInv, SlotsWritten, mainVars
<1>1. CASE ReadWord
  <2>1. TypeOK'
    BY <1>0, <1>1 DEF ReadWord, IInv, TypeOK, mainVars, Words
  <2>2. at' \notin {"load", "read", "walk"}
    BY <1>1 DEF ReadWord
  <2>3. ListMatchesChosen'
    BY <1>0, <1>1 DEF ReadWord, IInv, ListMatchesChosen
  <2> QED BY <1>1, <1>m, <2>1, <2>2, <2>3 DEF ReadWord, IInv, WalkInside
<1>2. CASE ReadDir
  BY <1>0, <1>2, <1>m DEF ReadDir, IInv, TypeOK, mainVars, WalkInside, ListMatchesChosen
<1>3. CASE ReadName
  <2>1. path' \in Names /\ sof' = Append(sof, "path") /\ chosen' = Append(chosen, path') /\ at' = "cmd"
    BY <1>3 DEF ReadName
  <2>2. /\ sof' \in Seq({"path"}) /\ chosen' \in Seq(Names)
        /\ Len(sof') = Len(sof) + 1 /\ Len(chosen') = Len(chosen) + 1
    BY <1>0, <2>1, AppendProperties
  <2>3. TypeOK'
    BY <1>0, <1>3, <2>1, <2>2 DEF ReadName, IInv, TypeOK, mainVars
  <2>4. ListMatchesChosen'
    BY <2>1, <2>2 DEF IInv, ListMatchesChosen
  <2> QED BY <1>3, <1>m, <2>1, <2>3, <2>4 DEF ReadName, IInv, WalkInside
<1>4. CASE OpenFile
  <2>1. at = "files" /\ i < Len(sof) /\ opened' = Append(opened, Deref(sof[i + 1]))
    BY <1>4 DEF OpenFile
  <2>2. Deref(sof[i + 1]) = path
    <3>1. i + 1 \in 1 .. Len(sof)
      BY <1>0, <2>1
    <3>2. sof[i + 1] \in {"path"}
      BY <1>0, <3>1, ElementOfSeq
    <3> QED BY <3>2 DEF Deref
  <2>3. /\ opened' \in Seq(Names \cup {Junk, "ls"})
        /\ Len(opened') = Len(opened) + 1 /\ opened'[Len(opened) + 1] = path
        /\ \A k \in 1 .. Len(opened) : opened'[k] = opened[k]
    BY <1>0, <2>1, <2>2, AppendProperties
  <2>4. Len(opened) = i /\ \A k \in 1 .. Len(opened) : opened[k] = path
    BY <2>1 DEF IInv, ListMatchesChosen
  <2>5. /\ \/ at' = "walk" /\ s' = 0 /\ i' = i
           \/ at' = "files" /\ i' = i + 1 /\ s' = s
        /\ UNCHANGED <<word, path, sof, bound, held, seen, exitFlag, chosen, mainVars>>
    BY <1>4 DEF OpenFile
  <2>6. TypeOK'
    BY <1>0, <2>3, <2>5 DEF IInv, TypeOK, mainVars
  <2>7. ListMatchesChosen'
    <3>1. \A k \in 1 .. Len(opened') : opened'[k] = path'
      BY <1>0, <2>3, <2>4, <2>5
    <3>2. Len(opened') = IF at' = "files" THEN i' ELSE i' + 1
      BY <1>0, <2>3, <2>4, <2>5
    <3> QED BY <2>5, <3>1, <3>2 DEF IInv, ListMatchesChosen
  <2> QED BY <1>m, <2>5, <2>6, <2>7 DEF IInv, WalkInside
<1>5. CASE FilesDone
  BY <1>0, <1>5, <1>m DEF FilesDone, IInv, TypeOK, mainVars, WalkInside, ListMatchesChosen
<1>6. CASE WalkTest
  <2>1. /\ at = "walk" /\ bound' = clients.len
        /\ \/ s < clients.len /\ at' = "load" /\ i' = i
           \/ at' = "files" /\ i' = i + 1
        /\ UNCHANGED <<word, path, sof, s, held, seen, exitFlag, opened, chosen, mainVars>>
    BY <1>6 DEF WalkTest, MoreClients
  <2>2. TypeOK'
    BY <1>0, <2>1 DEF IInv, TypeOK, mainVars
  <2>3. WalkInside'
    BY <1>0, <2>1 DEF IInv, SlotsWritten, WalkInside, mainVars
  <2>4. ListMatchesChosen'
    BY <1>0, <2>1 DEF IInv, ListMatchesChosen
  <2> QED BY <1>m, <2>1, <2>2, <2>3, <2>4 DEF IInv
<1>7. CASE WalkLoad
  <2>1. /\ at = "load" /\ held' = clients.cap /\ at' = "read"
        /\ UNCHANGED <<word, path, sof, i, s, bound, seen, exitFlag, opened, chosen, mainVars>>
    BY <1>7 DEF WalkLoad
  <2>2. TypeOK'
    BY <1>0, <2>1 DEF IInv, TypeOK, mainVars
  <2>3. WalkInside'
    BY <1>0, <2>1 DEF IInv, WalkInside, mainVars
  <2>4. ListMatchesChosen'
    BY <2>1 DEF IInv, ListMatchesChosen
  <2> QED BY <1>m, <2>1, <2>2, <2>3, <2>4 DEF IInv
<1>8. CASE WalkRead
  <2>1. /\ at = "read" /\ at' = "walk" /\ s' = s + 1
        /\ seen' = clients.buf[s] \/ seen' \in Fds \cup {Junk}
        /\ UNCHANGED <<word, path, sof, i, bound, held, exitFlag, opened, chosen, mainVars>>
    BY <1>8 DEF WalkRead
  <2>2. seen' \in Fds \cup {Junk}
    BY <1>0, <2>1 DEF IInv, WalkInside
  <2>3. TypeOK'
    BY <1>0, <2>1, <2>2 DEF IInv, TypeOK, mainVars
  <2>4. ListMatchesChosen'
    BY <2>1 DEF IInv, ListMatchesChosen
  <2> QED BY <1>m, <2>1, <2>3, <2>4 DEF IInv, WalkInside
<1> QED BY <1>1, <1>2, <1>3, <1>4, <1>5, <1>6, <1>7, <1>8 DEF Console

\* The console reads no list of clients beyond its buffer and, as long as the
\* buffer it loaded is the current one, no slot that was not written, although it
\* takes no lock (Tools.c:131-133 against dynarr.c:12-30); and the files it opens
\* are as many as were chosen, all of them the path typed last (Tools.c:99-146).
THEOREM ConsoleReadsInside == Spec => []ConsoleReadsRight
<1>1. IInv /\ [Next]_vars => IInv'
  <2> SUFFICES ASSUME IInv, [Next]_vars PROVE IInv'
    OBVIOUS
  <2>1. CASE UNCHANGED vars
    BY <2>1 DEF vars, conVars, mainVars, IInv, TypeOK, SlotsWritten, WalkInside, ListMatchesChosen
  <2> QED BY <2>1, ConsoleKeeps, MainKeeps DEF Next
<1> QED BY <1>1, InitInv, InvImplies, PTL DEF Spec
=============================================================================
