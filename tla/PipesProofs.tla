----------------------------- MODULE PipesProofs -----------------------------
(***************************************************************************)
(* What holds of Pipes for any processes, descriptors and losses: the      *)
(* theorems about Pipes and their proofs.                                  *)
(***************************************************************************)
EXTENDS Pipes, NaturalsInduction, WellFoundedInduction, TLAPS

(***************************************************************************)
(* The lowest of some numbers is one of them.                              *)
(***************************************************************************)
LEMMA LowestIsOne ==
  ASSUME NEW set \in SUBSET Nat, set # {}
  PROVE  Lowest(set) \in set /\ \A m \in set : Lowest(set) <= m
  <1>1. PICK n \in set : \A m \in set : <<m, n>> \notin OpToRel(<, Nat)
    BY WFMin, NatLessThanWellFounded, Zenon
  <1>2. \A m \in set : ~(m < n)
    BY <1>1, Zenon DEF OpToRel
  <1>3. \A m \in set : n <= m
    BY <1>2
  <1>4. QED
    BY <1>3, Zenon DEF Lowest

(***************************************************************************)
(* The invariant: datalackey's own standard error has no object, every     *)
(* other descriptor and its object know each other, and where a runner is  *)
(* tells which of its ends are not open.                                   *)
(***************************************************************************)
TypesInv ==
    /\ table \in [Fds -> Ends \cup {Free}] /\ owners \in [Fds -> Ends \cup {Free}]
    /\ fd \in [Ends -> Fds \cup {Closed}]
    /\ place \in [Ids -> Places]

ErrorsInv == table[2] = Errors /\ owners[2] = Free

Unopened(p, pipe) == fd[<<p, pipe, "r">>] = Closed /\ fd[<<p, pipe, "w">>] = Closed

PlacesInv ==
    \A p \in Ids :
        /\ place[p] \in {"none", "out", "over", "cleaned"} => Unopened(p, "out")
        /\ place[p] \in {"none", "out", "err", "over", "cleaned"} => Unopened(p, "err")
        /\ place[p] \in {"none", "out", "err", "in", "over", "cleaned"} => Unopened(p, "in")

IInv == TypesInv /\ ErrorsInv /\ OwnersAgree /\ PlacesInv

LEMMA EndType ==
  ASSUME NEW p \in Ids \cup {Main}, NEW pipe \in {"in", "out", "err"}, NEW side \in {"r", "w"}
  PROVE  <<p, pipe, side>> \in Ends
  BY DEF Ends

LEMMA EndOf ==
  ASSUME NEW e \in Ends
  PROVE  /\ e = <<e[1], e[2], e[3]>> /\ e[1] \in Ids \cup {Main}
         /\ e[2] \in {"in", "out", "err"} /\ e[3] \in {"r", "w"}
  BY DEF Ends

(* Mapped tables and objects, apart from where runners are.                *)
Tables ==
    /\ table \in [Fds -> Ends \cup {Free}] /\ owners \in [Fds -> Ends \cup {Free}]
    /\ fd \in [Ends -> Fds \cup {Closed}]
    /\ ErrorsInv /\ OwnersAgree

(***************************************************************************)
(* Closing an end keeps the tables in step and touches no other object.    *)
(***************************************************************************)
LEMMA CloseKeepsTables ==
  ASSUME Tables, NEW e \in Ends, Close(e)
  PROVE  Tables' /\ fd' = [fd EXCEPT ![e] = Closed]
  <1> USE DEF Tables, ErrorsInv
  <1>1. Closed \notin Fds /\ 2 \in Fds /\ Free \notin Ends
    BY ConstantsAssumption, FreeAssumption DEF Closed, Fds
  <1>2. fd' = [fd EXCEPT ![e] = Closed]
    BY DEF Close
  <1>3. fd' \in [Ends -> Fds \cup {Closed}]
    BY <1>2
  <1>4. CASE fd[e] = Closed
    <2>1. fd' = fd
      BY <1>2, <1>4
    <2>2. table' = table /\ owners' = owners
      BY <1>4 DEF Close
    <2>3. OwnersAgree'
      BY <2>1, <2>2 DEF OwnersAgree
    <2>4. QED
      BY <1>2, <1>3, <2>2, <2>3
  <1>5. CASE fd[e] # Closed
    <2> DEFINE n == fd[e]
    <2>1. n \in Fds /\ owners[n] = e /\ n # 2 /\ table[n] = e
      BY <1>1, <1>5 DEF OwnersAgree
    <2>2. table' = [table EXCEPT ![n] = Free] /\ owners' = [owners EXCEPT ![n] = Free]
      BY <1>5, <2>1 DEF Close
    <2>3. table' \in [Fds -> Ends \cup {Free}] /\ owners' \in [Fds -> Ends \cup {Free}]
      BY <2>2
    <2>4. ErrorsInv'
      BY <1>1, <2>1, <2>2
    <2>5. \A m \in Fds \ {2} : owners'[m] = table'[m]
      BY <2>2 DEF OwnersAgree
    <2>6. \A f \in Ends, m \in Fds : fd'[f] = m <=> owners'[m] = f
      BY <1>2, <1>1, <2>1, <2>2 DEF OwnersAgree
    <2>7. QED
      BY <1>2, <1>3, <2>3, <2>4, <2>5, <2>6 DEF OwnersAgree
  <1>6. QED
    BY <1>4, <1>5

(***************************************************************************)
(* Making a pipe for ends that are not open keeps the tables in step.      *)
(***************************************************************************)
LEMMA MakePipeKeepsTables ==
  ASSUME Tables, NEW p \in Ids, NEW pipe \in {"in", "out", "err"}, Unopened(p, pipe),
         MakePipe(p, pipe)
  PROVE  /\ Tables'
         /\ \A e \in Ends : (e[1] # p \/ e[2] # pipe) => fd'[e] = fd[e]
  <1> USE DEF Tables, ErrorsInv
  <1> DEFINE r == Lowest(FreeFds)
             w == Lowest(FreeFds \ {r})
             re == <<p, pipe, "r">>
             we == <<p, pipe, "w">>
  <1>1. Closed \notin Fds /\ 2 \in Fds /\ Free \notin Ends /\ Fds \subseteq Nat
    BY ConstantsAssumption, FreeAssumption DEF Closed, Fds
  <1>2. re \in Ends /\ we \in Ends /\ re # we
    BY EndType
  <1>3. r \in FreeFds
    <2>1. FreeFds \in SUBSET Nat /\ FreeFds # {}
      BY <1>1 DEF MakePipe, TwoAreFree, FreeFds
    <2>2. QED
      BY <2>1, LowestIsOne
  <1>4. w \in FreeFds /\ w # r
    <2>1. PICK n \in FreeFds : n # r
      BY DEF MakePipe, TwoAreFree
    <2>2. FreeFds \in SUBSET Nat
      BY <1>1 DEF FreeFds
    <2> HIDE DEF r
    <2>3. FreeFds \ {r} \in SUBSET Nat /\ FreeFds \ {r} # {}
      BY <2>1, <2>2
    <2>4. QED
      BY <2>3, LowestIsOne
  <1>5. r \in Fds /\ table[r] = Free /\ w \in Fds /\ table[w] = Free
    BY <1>3, <1>4 DEF FreeFds
  <1>6. r # 2 /\ w # 2
    <2>1. Errors # Free
      BY <1>1 DEF Errors, Ends
    <2>2. QED
      BY <2>1, <1>5
  <1>7. owners[r] = Free /\ owners[w] = Free
    BY <1>5, <1>6 DEF OwnersAgree
  <1>8. /\ table' = [table EXCEPT ![r] = re, ![w] = we]
        /\ owners' = [owners EXCEPT ![r] = re, ![w] = we]
    BY DEF MakePipe
  <1>9. fd' = [fd EXCEPT ![re] = r, ![we] = w]
    BY DEF MakePipe
  <1> HIDE DEF r, w, re, we
  <1>10. table' = [n \in Fds |-> IF n = w THEN we ELSE IF n = r THEN re ELSE table[n]]
    BY <1>8, <1>5, <1>4
  <1>11. owners' = [n \in Fds |-> IF n = w THEN we ELSE IF n = r THEN re ELSE owners[n]]
    BY <1>8, <1>5, <1>4
  <1>12. /\ table' \in [Fds -> Ends \cup {Free}] /\ owners' \in [Fds -> Ends \cup {Free}]
        /\ fd' \in [Ends -> Fds \cup {Closed}]
    BY <1>9, <1>10, <1>11, <1>2, <1>5
  <1>13. ErrorsInv'
    BY <1>10, <1>11, <1>1, <1>6
  <1>14. \A n \in Fds \ {2} : owners'[n] = table'[n]
    BY <1>10, <1>11 DEF OwnersAgree
  <1>15. fd[re] = Closed /\ fd[we] = Closed
    BY DEF Unopened, re, we
  <1>16. \A e \in Ends, n \in Fds : fd'[e] = n <=> owners'[n] = e
    <2> TAKE e \in Ends, n \in Fds
    <2>1. CASE e = re
      BY <2>1, <1>9, <1>11, <1>15, <1>1, <1>2, <1>4, <1>5 DEF OwnersAgree
    <2>2. CASE e = we
      BY <2>2, <1>9, <1>11, <1>15, <1>1, <1>2, <1>4, <1>5 DEF OwnersAgree
    <2>3. CASE e # re /\ e # we
      <3>1. fd'[e] = fd[e]
        BY <2>3, <1>9, <1>2
      <3>2. CASE n \in {r, w}
        BY <2>3, <3>1, <3>2, <1>11, <1>1, <1>7, <1>4 DEF OwnersAgree
      <3>3. CASE n \notin {r, w}
        BY <3>1, <3>3, <1>11 DEF OwnersAgree
      <3>4. QED
        BY <3>2, <3>3
    <2>4. QED
      BY <2>1, <2>2, <2>3
  <1>17. \A e \in Ends : (e[1] # p \/ e[2] # pipe) => fd'[e] = fd[e]
    BY <1>9, <1>2 DEF re, we
  <1>18. QED
    BY <1>12, <1>13, <1>14, <1>16, <1>17 DEF OwnersAgree

(***************************************************************************)
(* One action after the other.  Whatever is closed, an end that was not    *)
(* open stays so.                                                          *)
(***************************************************************************)
LEMMA CloseKeepsInv ==
  ASSUME IInv, NEW e \in Ends, Close(e), place' = place PROVE IInv'
  <1>1. Tables' /\ fd' = [fd EXCEPT ![e] = Closed]
    BY CloseKeepsTables DEF IInv, TypesInv, Tables
  <1>2. PlacesInv'
    <2>1. \A p \in Ids, pipe \in {"in", "out", "err"} :
             Unopened(p, pipe) => Unopened(p, pipe)'
      BY <1>1, EndType DEF IInv, TypesInv, Unopened
    <2>2. QED
      BY <2>1 DEF IInv, PlacesInv
  <1>3. QED
    BY <1>1, <1>2 DEF IInv, TypesInv, Tables

(* The place of one runner changes and nothing else: no new pipe is        *)
(* promised to be unopened.                                                *)
LEMMA StepKeepsInv ==
  ASSUME IInv, NEW p \in Ids, NEW to \in Places, UNCHANGED descriptors,
         place' = [place EXCEPT ![p] = to],
         \/ to \in {"spawn", "close", "scan", "free"}
         \/ place[p] = "none" /\ to = "out"
         \/ place[p] = "over" /\ to = "cleaned"
         \/ \A pipe \in {"in", "out", "err"} : Unopened(p, pipe)
  PROVE  IInv'
  <1>1. TypesInv' /\ ErrorsInv' /\ OwnersAgree'
    BY DEF IInv, TypesInv, ErrorsInv, OwnersAgree, descriptors
  <1>2. PlacesInv'
    <2>1. \A q \in Ids, pipe \in {"in", "out", "err"} :
             Unopened(q, pipe) => Unopened(q, pipe)'
      BY DEF Unopened, descriptors
    <2>2. \A q \in Ids : q # p => place'[q] = place[q]
      BY DEF IInv, TypesInv
    <2>3. place'[p] = to
      BY DEF IInv, TypesInv
    <2>4. QED
      BY <2>1, <2>2, <2>3 DEF IInv, PlacesInv
  <1>3. QED
    BY <1>1, <1>2 DEF IInv

LEMMA PipeKeepsInv ==
  ASSUME IInv, NEW p \in Ids, NEW pipe \in {"out", "err", "in"}, Pipe(p, pipe)
  PROVE  IInv'
  <1>1. place[p] = pipe /\ place' = [place EXCEPT ![p] = AfterPipe(p, pipe)]
    BY DEF Pipe, Step
  <1>2. Unopened(p, pipe)
    BY <1>1 DEF IInv, PlacesInv
  <1>3. /\ Tables'
        /\ \A e \in Ends : (e[1] # p \/ e[2] # pipe) => fd'[e] = fd[e]
    BY <1>2, MakePipeKeepsTables DEF Pipe, IInv, TypesInv, Tables
  <1>4. \/ pipe = "out" /\ AfterPipe(p, pipe) = "err"
        \/ pipe = "err" /\ AfterPipe(p, pipe) \in {"in", "spawn"}
        \/ pipe = "in" /\ AfterPipe(p, pipe) = "spawn"
    BY DEF AfterPipe
  <1>5. place' \in [Ids -> Places] /\ place'[p] = AfterPipe(p, pipe)
        /\ \A q \in Ids : q # p => place'[q] = place[q]
    BY <1>1, <1>4 DEF IInv, TypesInv, Places
  <1>6. \A q \in Ids, other \in {"in", "out", "err"} :
           (q # p \/ other # pipe) /\ Unopened(q, other) => Unopened(q, other)'
    BY <1>3, EndType DEF Unopened
  <1>7. PlacesInv'
    <2> SUFFICES ASSUME NEW q \in Ids
                 PROVE  /\ place'[q] \in {"none", "out", "over", "cleaned"} => Unopened(q, "out")'
                        /\ place'[q] \in {"none", "out", "err", "over", "cleaned"} =>
                              Unopened(q, "err")'
                        /\ place'[q] \in {"none", "out", "err", "in", "over", "cleaned"} =>
                              Unopened(q, "in")'
      BY DEF PlacesInv
    <2>1. CASE q # p
      BY <2>1, <1>5, <1>6 DEF IInv, PlacesInv
    <2>2. CASE q = p
      BY <2>2, <1>1, <1>4, <1>5, <1>6 DEF IInv, PlacesInv
    <2>3. QED
      BY <2>1, <2>2
  <1>8. QED
    BY <1>3, <1>5, <1>7 DEF IInv, TypesInv, Tables

(* A runner goes on after the last of the ends it closes.                  *)
LEMMA CloseInOrderKeepsInv ==
  ASSUME IInv, NEW p \in Ids, NEW ends \in Seq(Ends), NEW next \in Places,
         CloseInOrder(p, ends, next),
         \/ next = "scan"
         \/ \A pipe \in {"in", "out", "err"}, side \in {"r", "w"} :
                \E i \in DOMAIN ends : ends[i] = <<p, pipe, side>>
  PROVE  IInv'
  <1> DEFINE open == {i \in DOMAIN ends : fd[ends[i]] # Closed}
             last == \A i \in open : i = Lowest(open)
  <1>1. \A i \in DOMAIN ends : ends[i] \in Ends
    OBVIOUS
  <1>2. open \in SUBSET Nat
    OBVIOUS
  <1>3. place' = IF last THEN [place EXCEPT ![p] = next] ELSE place
    BY DEF CloseInOrder
  <1>4. \/ UNCHANGED descriptors /\ open = {}
        \/ open # {} /\ Close(ends[Lowest(open)])
    BY DEF CloseInOrder
  <1>5. open # {} => Lowest(open) \in open
    BY <1>2, LowestIsOne
  <1> HIDE DEF open
  <1>6. /\ Tables'
        /\ \A i \in DOMAIN ends : last => fd'[ends[i]] = Closed
        /\ \A e \in Ends : fd[e] = Closed => fd'[e] = Closed
    <2>1. CASE UNCHANGED descriptors /\ open = {}
      <3>1. Tables'
        BY <2>1 DEF descriptors, IInv, TypesInv, ErrorsInv, OwnersAgree, Tables
      <3>2. QED
        BY <2>1, <3>1 DEF descriptors, open
    <2>2. CASE open # {} /\ Close(ends[Lowest(open)])
      <3> DEFINE e == ends[Lowest(open)]
      <3>1. Lowest(open) \in DOMAIN ends /\ e \in Ends
        BY <1>1, <1>5, <2>2 DEF open
      <3> HIDE DEF e
      <3>2. Close(e)
        BY <2>2 DEF e
      <3>3. Tables' /\ fd' = [fd EXCEPT ![e] = Closed]
        BY <3>1, <3>2, CloseKeepsTables DEF IInv, TypesInv, Tables
      <3>4. \A f \in Ends : fd'[f] = IF f = e THEN Closed ELSE fd[f]
        BY <3>1, <3>3 DEF IInv, TypesInv
      <3>5. \A i \in DOMAIN ends : last => fd'[ends[i]] = Closed
        BY <3>4, <1>1 DEF e, open
      <3>6. QED
        BY <3>3, <3>4, <3>5
    <2>3. QED
      BY <1>4, <2>1, <2>2
  <1>7. \A q \in Ids, pipe \in {"in", "out", "err"} : Unopened(q, pipe) => Unopened(q, pipe)'
    BY <1>6, EndType DEF Unopened
  <1>8. last => next = "scan" \/ \A pipe \in {"in", "out", "err"} : Unopened(p, pipe)'
    BY <1>6 DEF Unopened
  <1>9. place' \in [Ids -> Places] /\ \A q \in Ids : q # p => place'[q] = place[q]
    BY <1>3 DEF IInv, TypesInv
  <1>10. place'[p] = IF last THEN next ELSE place[p]
    BY <1>3 DEF IInv, TypesInv
  <1>11. PlacesInv'
    <2> HIDE DEF last
    <2>1. \A q \in Ids : place'[q] = place[q] \/ place'[q] = "scan"
             \/ \A pipe \in {"in", "out", "err"} : Unopened(q, pipe)'
      BY <1>8, <1>9, <1>10
    <2>2. QED
      BY <1>7, <2>1 DEF IInv, PlacesInv
  <1>12. QED
    BY <1>6, <1>9, <1>11 DEF IInv, TypesInv, Tables

LEMMA Initially == Init => IInv
  <1> SUFFICES ASSUME Init PROVE IInv
    OBVIOUS
  <1>1. /\ 0 \in Fds /\ 1 \in Fds /\ 2 \in Fds /\ Closed \notin Fds
        /\ ControllerIn \in Ends /\ ControllerOut \in Ends /\ Errors \in Ends
        /\ ControllerIn # ControllerOut /\ Free \notin Ends
    BY ConstantsAssumption, FreeAssumption
    DEF Fds, Closed, Ends, ControllerIn, ControllerOut, Errors
  <1>2. /\ table \in [Fds -> Ends \cup {Free}]
        /\ table[0] = ControllerIn /\ table[1] = ControllerOut /\ table[2] = Errors
        /\ \A n \in Fds \ {0, 1, 2} : table[n] = Free
    BY <1>1 DEF Init
  <1>3. /\ owners \in [Fds -> Ends \cup {Free}]
        /\ owners[2] = Free /\ \A n \in Fds \ {2} : owners[n] = table[n]
    BY <1>2, <1>1 DEF Init
  <1>4. TypesInv
    BY <1>2, <1>3, <1>1 DEF Init, TypesInv, Places
  <1>5. \A e \in Ends : fd[e] = IF e = ControllerIn THEN 0
                              ELSE IF e = ControllerOut THEN 1 ELSE Closed
    BY DEF Init
  <1>6. OwnersAgree
    <2> SUFFICES ASSUME NEW e \in Ends, NEW n \in Fds PROVE fd[e] = n <=> owners[n] = e
      BY <1>3 DEF OwnersAgree
    <2>1. owners[n] = IF n = 0 THEN ControllerIn ELSE IF n = 1 THEN ControllerOut ELSE Free
      BY <1>2, <1>3
    <2>2. QED
      BY <1>1, <1>5, <2>1
  <1>7. PlacesInv
    BY <1>5, EndType, ConstantsAssumption DEF PlacesInv, Unopened, ControllerIn, ControllerOut
  <1>8. QED
    BY <1>2, <1>3, <1>4, <1>6, <1>7 DEF IInv, ErrorsInv

LEMMA Inductive == IInv /\ [Next]_vars => IInv'
  <1> SUFFICES ASSUME IInv, [Next]_vars PROVE IInv'
    OBVIOUS
  <1>1. ASSUME NEW p \in Ids, Run(p) PROVE IInv'
    BY <1>1, StepKeepsInv DEF Run, Places
  <1>2. ASSUME NEW p \in Ids, EndFeed(p) PROVE IInv'
    BY <1>2, CloseKeepsInv, EndType DEF EndFeed
  <1>3. ASSUME NEW p \in Ids, WriteFails(p) PROVE IInv'
    BY <1>3, CloseKeepsInv, EndType DEF WriteFails
  <1>4. ASSUME NEW p \in Ids, NEW pipe \in {"out", "err", "in"}, Pipe(p, pipe) PROVE IInv'
    BY <1>4, PipeKeepsInv
  <1>5. ASSUME NEW p \in Ids, Spawn(p) PROVE IInv'
    BY <1>5, StepKeepsInv DEF Spawn, Step, Places
  <1>6. ASSUME NEW p \in Ids, SpawnFails(p) PROVE IInv'
    BY <1>6, StepKeepsInv DEF SpawnFails, Step, Places
  <1>7. ASSUME NEW p \in Ids, CloseGiven(p) PROVE IInv'
    <2>1. Given(p) \in Seq(Ends) /\ "scan" \in Places
      <3>1. <<p, "in", "r">> \in Ends /\ <<p, "out", "w">> \in Ends /\ <<p, "err", "w">> \in Ends
        BY EndType
      <3>2. QED
        BY <3>1 DEF Given, Places
    <2>2. CloseInOrder(p, Given(p), "scan")
      BY <1>7 DEF CloseGiven
    <2>3. QED
      BY <2>1, <2>2, CloseInOrderKeepsInv
  <1>8. ASSUME NEW p \in Ids, ReadEnds(p) PROVE IInv'
    BY <1>8, CloseKeepsInv, EndType DEF ReadEnds
  <1>9. ASSUME NEW p \in Ids, ScanEnds(p) PROVE IInv'
    BY <1>9, StepKeepsInv DEF ScanEnds, Step, Places
  <1>10. ASSUME NEW p \in Ids, FreeEnds(p) PROVE IInv'
    <2>1. Rest(p) \in Seq(Ends) /\ "over" \in Places
      BY EndType DEF Rest, Places
    <2>2. CloseInOrder(p, Rest(p), "over")
      BY <1>10 DEF FreeEnds
    <2>3. \A pipe \in {"in", "out", "err"}, side \in {"r", "w"} :
             \E i \in DOMAIN Rest(p) : Rest(p)[i] = <<p, pipe, side>>
      <3>1. /\ DOMAIN Rest(p) = 1 .. 6
            /\ Rest(p)[1] = <<p, "in", "r">> /\ Rest(p)[2] = <<p, "out", "r">>
            /\ Rest(p)[3] = <<p, "out", "w">> /\ Rest(p)[4] = <<p, "in", "w">>
            /\ Rest(p)[5] = <<p, "err", "r">> /\ Rest(p)[6] = <<p, "err", "w">>
        BY DEF Rest
      <3> HIDE DEF Rest
      <3>2. {1, 2, 3, 4, 5, 6} \subseteq DOMAIN Rest(p)
        BY <3>1
      <3>3. QED
        BY <3>1, <3>2
    <2>4. QED
      BY <2>1, <2>2, <2>3, CloseInOrderKeepsInv
  <1>11. ASSUME NEW p \in Ids, Clean(p) PROVE IInv'
    BY <1>11, StepKeepsInv DEF Clean, Step, Places
  <1>12. ASSUME LoseController PROVE IInv'
    <2>1. ControllerIn \in Ends /\ ControllerOut \in Ends
      BY EndType DEF ControllerIn, ControllerOut
    <2>2. QED
      BY <1>12, <2>1, CloseKeepsInv DEF LoseController
  <1>13. ASSUME UNCHANGED <<descriptors, place>> PROVE IInv'
    BY <1>13
    DEF IInv, TypesInv, ErrorsInv, OwnersAgree, PlacesInv, Unopened, descriptors
  <1>14. QED
    <2>1. ASSUME NEW p \in Ids, PipeFails(p) \/ SpawnImpossible(p) \/ Reap(p)
                                 \/ ChildCloses(p) \/ ChildEnds(p)
          PROVE  UNCHANGED <<descriptors, place>>
      BY <2>1 DEF PipeFails, SpawnImpossible, Reap, ChildCloses, ChildEnds
    <2>2. MainExits \/ Nap \/ UNCHANGED vars => UNCHANGED <<descriptors, place>>
      BY DEF MainExits, Nap, vars
    <2>3. QED
      BY <1>1, <1>2, <1>3, <1>4, <1>5, <1>6, <1>7, <1>8, <1>9, <1>10, <1>11, <1>12, <1>13,
         <2>1, <2>2 DEF Next, Progress

(***************************************************************************)
(* With what a child is started.  The ends its runner needs are open, none *)
(* of them has the number 2, and those that are written to do not have 0,  *)
(* as pipe gives the lower number to the other: what a child is to have is *)
(* overwritten by the rest of it only when its errors are written to 1.    *)
(***************************************************************************)
Kinds == {"in", "out", "err"}

Opened(p, pipe) == fd[<<p, pipe, "r">>] \in Fds /\ fd[<<p, pipe, "w">>] \in Fds

OpenedInv ==
    \A p \in Ids :
        /\ place[p] \in {"err", "in", "spawn"} => Opened(p, "out")
        /\ place[p] \in {"in", "spawn"} => Opened(p, "err")
        /\ place[p] = "spawn" /\ p \in Inputs => Opened(p, "in")

NumbersInv == \A p \in Ids, pipe \in Kinds : fd[<<p, pipe, "w">>] # 0

ChildrenOK ==
    /\ child \in [Ids -> {"none", "alive", "zombie", "reaped"}]
    /\ std \in [Ids -> [0 .. 2 -> Ends \cup {Free}]]
    /\ extra \in [Ids -> SUBSET Ends]
    /\ main \in {"loop", "exited", "failed"}

WInv == IInv /\ OpenedInv /\ NumbersInv /\ ChildrenOK

LEMMA CloseKeepsNumbers ==
  ASSUME WInv, NEW e \in Ends, fd' = [fd EXCEPT ![e] = Closed]
  PROVE  NumbersInv'
  <1>1. fd \in [Ends -> Fds \cup {Closed}] /\ Closed # 0
    BY DEF WInv, IInv, TypesInv, Closed
  <1>2. QED
    BY <1>1, EndType DEF WInv, NumbersInv, Kinds

LEMMA SameEnds ==
  ASSUME WInv, UNCHANGED fd
  PROVE  NumbersInv' /\ \A p \in Ids, pipe \in Kinds : Opened(p, pipe) => Opened(p, pipe)'
  BY DEF WInv, NumbersInv, Opened

(* The ends of other pipes stay open.                                      *)
LEMMA CloseKeepsOpened ==
  ASSUME WInv, NEW e \in Ends, fd' = [fd EXCEPT ![e] = Closed]
  PROVE  \A p \in Ids, pipe \in Kinds :
            (p # e[1] \/ pipe # e[2]) /\ Opened(p, pipe) => Opened(p, pipe)'
  <1>1. fd \in [Ends -> Fds \cup {Closed}]
    BY DEF WInv, IInv, TypesInv
  <1>2. QED
    BY <1>1, EndType DEF Opened, Kinds

LEMMA SamePlaces ==
  ASSUME WInv, UNCHANGED <<place, fd>>
  PROVE  OpenedInv' /\ NumbersInv'
  <1>1. NumbersInv' /\ \A p \in Ids, pipe \in Kinds : Opened(p, pipe) => Opened(p, pipe)'
    BY SameEnds
  <1>2. QED
    BY <1>1 DEF WInv, OpenedInv, Kinds

(* The runner p goes to a place where nothing more has to be open.         *)
LEMMA StepKeepsOpened ==
  ASSUME WInv, NEW p \in Ids, NEW to \in Places \ {"err", "in", "spawn"},
         place' = [place EXCEPT ![p] = to]
            \/ (place' = place /\ place[p] \notin {"err", "in", "spawn"}),
         \A q \in Ids \ {p}, pipe \in Kinds : Opened(q, pipe) => Opened(q, pipe)'
  PROVE  OpenedInv'
  <1>1. place'[p] \notin {"err", "in", "spawn"} /\ \A q \in Ids \ {p} : place'[q] = place[q]
    BY DEF WInv, IInv, TypesInv
  <1>2. QED
    BY <1>1 DEF WInv, OpenedInv, Kinds

LEMMA CloseStep ==
  ASSUME WInv, NEW p \in Ids, NEW pipe \in Kinds, NEW side \in {"r", "w"},
         Close(<<p, pipe, side>>), UNCHANGED place, place[p] \notin {"err", "in", "spawn"}
  PROVE  OpenedInv' /\ NumbersInv'
  <1> DEFINE e == <<p, pipe, side>>
  <1>1. e \in Ends /\ e[1] = p
    BY EndType DEF Kinds
  <1>2. fd' = [fd EXCEPT ![e] = Closed]
    BY DEF Close
  <1> HIDE DEF e
  <1>3. NumbersInv'
    BY <1>1, <1>2, CloseKeepsNumbers
  <1>4. \A q \in Ids \ {p}, k \in Kinds : Opened(q, k) => Opened(q, k)'
    BY <1>1, <1>2, CloseKeepsOpened
  <1>5. QED
    BY <1>3, <1>4, StepKeepsOpened DEF Places

LEMMA CloseInOrderStep ==
  ASSUME WInv, NEW p \in Ids, NEW ends \in Seq(Ends), NEW next \in Places \ {"err", "in", "spawn"},
         \A i \in DOMAIN ends : ends[i][1] = p,
         CloseInOrder(p, ends, next), place[p] \notin {"err", "in", "spawn"}
  PROVE  OpenedInv' /\ NumbersInv'
  <1> DEFINE open == {i \in DOMAIN ends : fd[ends[i]] # Closed}
  <1>1. place' = place \/ place' = [place EXCEPT ![p] = next]
    BY DEF CloseInOrder
  <1>2. CASE open = {}
    <2>1. UNCHANGED fd
      BY <1>2 DEF CloseInOrder, descriptors
    <2>2. QED
      BY <1>1, <2>1, SameEnds, StepKeepsOpened
  <1>3. CASE open # {}
    <2>1. open \in SUBSET Nat
      OBVIOUS
    <2>2. Lowest(open) \in open
      BY <1>3, <2>1, LowestIsOne
    <2>3. PICK e : e = ends[Lowest(open)] /\ Close(e)
      BY <1>3 DEF CloseInOrder
    <2>4. e \in Ends /\ e[1] = p
      BY <2>2, <2>3
    <2>5. fd' = [fd EXCEPT ![e] = Closed]
      BY <2>3 DEF Close
    <2>6. QED
      BY <1>1, <2>4, <2>5, CloseKeepsNumbers, CloseKeepsOpened, StepKeepsOpened
  <1>4. QED
    BY <1>2, <1>3

(* A new pipe has two numbers that were free.  The end that is written to  *)
(* has the higher one.                                                     *)
LEMMA MakePipeNumbers ==
  ASSUME WInv, NEW p \in Ids, NEW pipe \in Kinds, MakePipe(p, pipe)
  PROVE  /\ Opened(p, pipe)'
         /\ \A e \in Ends : (e[1] # p \/ e[2] # pipe) => fd'[e] = fd[e]
         /\ NumbersInv'
  <1> DEFINE r == Lowest(FreeFds)
             w == Lowest(FreeFds \ {r})
             re == <<p, pipe, "r">>
             we == <<p, pipe, "w">>
  <1>1. re \in Ends /\ we \in Ends /\ re # we
    BY EndType DEF Kinds
  <1>2. FreeFds \in SUBSET Nat
    BY ConstantsAssumption DEF FreeFds, Fds
  <1>3. r \in FreeFds /\ \A m \in FreeFds : r <= m
    BY <1>2, LowestIsOne DEF MakePipe, TwoAreFree
  <1>4. w \in FreeFds \ {r}
    <2>1. PICK n \in FreeFds : n # r
      BY DEF MakePipe, TwoAreFree
    <2> HIDE DEF r
    <2>2. FreeFds \ {r} \in SUBSET Nat /\ FreeFds \ {r} # {}
      BY <1>2, <2>1
    <2>3. QED
      BY <2>2, LowestIsOne
  <1>5. fd' = [fd EXCEPT ![re] = r, ![we] = w]
    BY DEF MakePipe
  <1> HIDE DEF r, w
  <1>6. /\ r \in Fds /\ w \in Fds /\ r \in Nat /\ w \in Nat /\ r < w
        /\ table[r] = Free /\ table[w] = Free
    BY <1>2, <1>3, <1>4 DEF FreeFds
  <1>7. \A e \in Ends : fd'[e] = IF e = we THEN w ELSE IF e = re THEN r ELSE fd[e]
    BY <1>1, <1>5 DEF WInv, IInv, TypesInv
  <1>8. Opened(p, pipe)'
    BY <1>1, <1>6, <1>7 DEF Opened
  <1>9. \A e \in Ends : (e[1] # p \/ e[2] # pipe) => fd'[e] = fd[e]
    BY <1>7
  <1>10. NumbersInv'
    <2>1. ASSUME NEW q \in Ids, NEW k \in Kinds PROVE fd'[<<q, k, "w">>] # 0
      <3>1. <<q, k, "w">> \in Ends /\ re # <<q, k, "w">>
        BY EndType DEF Kinds
      <3>2. w # 0 /\ fd[<<q, k, "w">>] # 0
        BY <1>6 DEF WInv, NumbersInv
      <3>3. QED
        BY <3>1, <3>2, <1>7
    <2>2. QED
      BY <2>1 DEF NumbersInv
  <1>11. QED
    BY <1>8, <1>9, <1>10

LEMMA PipeStep ==
  ASSUME WInv, NEW p \in Ids, NEW pipe \in {"out", "err", "in"}, Pipe(p, pipe)
  PROVE  OpenedInv' /\ NumbersInv'
  <1>1. place[p] = pipe /\ place' = [place EXCEPT ![p] = AfterPipe(p, pipe)]
    BY DEF Pipe, Step
  <1>2. /\ Opened(p, pipe)' /\ NumbersInv'
        /\ \A e \in Ends : (e[1] # p \/ e[2] # pipe) => fd'[e] = fd[e]
    BY MakePipeNumbers DEF Pipe, Kinds
  <1>3. \A q \in Ids, k \in Kinds : (q # p \/ k # pipe) /\ Opened(q, k) => Opened(q, k)'
    BY <1>2, EndType DEF Opened, Kinds
  <1>4. place'[p] = AfterPipe(p, pipe) /\ \A q \in Ids : q # p => place'[q] = place[q]
    BY <1>1 DEF WInv, IInv, TypesInv
  <1>5. OpenedInv'
    <2> SUFFICES ASSUME NEW q \in Ids
                 PROVE  /\ place'[q] \in {"err", "in", "spawn"} => Opened(q, "out")'
                        /\ place'[q] \in {"in", "spawn"} => Opened(q, "err")'
                        /\ place'[q] = "spawn" /\ q \in Inputs => Opened(q, "in")'
      BY DEF OpenedInv
    <2>1. CASE q # p
      BY <2>1, <1>3, <1>4 DEF WInv, OpenedInv, Kinds
    <2>2. CASE q = p /\ pipe = "out"
      BY <2>2, <1>2, <1>4 DEF AfterPipe
    <2>3. CASE q = p /\ pipe = "err"
      BY <2>3, <1>1, <1>2, <1>3, <1>4 DEF AfterPipe, WInv, OpenedInv, Kinds
    <2>4. CASE q = p /\ pipe = "in"
      BY <2>4, <1>1, <1>2, <1>3, <1>4 DEF AfterPipe, WInv, OpenedInv, Kinds
    <2>5. QED
      BY <2>1, <2>2, <2>3, <2>4
  <1>6. QED
    BY <1>2, <1>5

(***************************************************************************)
(* The tables file actions make, one after the other.                      *)
(***************************************************************************)
IsAfter(f, actions, n) ==
    /\ f[0] = {table}
    /\ \A k \in 1 .. n : f[k] = Perform(f[k - 1], actions[k])

(* The recursive definition has a value: of the numbers of actions for     *)
(* which there is none there would be a least.                             *)
LEMMA AfterExists ==
  ASSUME NEW actions, NEW N \in Nat
  PROVE  \E f : IsAfter(f, actions, N)
  <1> DEFINE none == {n \in Nat : ~\E f : IsAfter(f, actions, n)}
  <1>1. SUFFICES ASSUME none # {} PROVE FALSE
    OBVIOUS
  <1>2. none \in SUBSET Nat
    OBVIOUS
  <1>3. PICK n \in none : \A m \in none : n <= m
    BY <1>1, <1>2, LowestIsOne
  <1>4. CASE n = 0
    <2>1. IsAfter([k \in {0} |-> {table}], actions, 0)
      BY DEF IsAfter
    <2>2. QED
      BY <1>3, <1>4, <2>1
  <1>5. CASE n # 0
    <2>1. n - 1 \in Nat /\ n - 1 \notin none
      BY <1>3, <1>5
    <2>2. PICK f : IsAfter(f, actions, n - 1)
      BY <2>1
    <2> DEFINE g == [k \in 0 .. n |-> IF k = n THEN Perform(f[n - 1], actions[n]) ELSE f[k]]
    <2>3. g[0] = f[0]
      BY <1>3, <1>5
    <2>4. ASSUME NEW k \in 1 .. n PROVE g[k] = Perform(g[k - 1], actions[k])
      <3>1. k - 1 \in 0 .. n /\ k - 1 # n /\ g[k - 1] = f[k - 1]
        BY <1>3
      <3>2. CASE k = n
        BY <3>1, <3>2
      <3>3. CASE k # n
        <4>1. k \in 1 .. n - 1 /\ g[k] = f[k]
          BY <3>3, <1>3
        <4>2. f[k] = Perform(f[k - 1], actions[k])
          BY <4>1, <2>2, Zenon DEF IsAfter
        <4> HIDE DEF g
        <4>3. QED
          BY <3>1, <4>1, <4>2
      <3>4. QED
        BY <3>2, <3>3
    <2> HIDE DEF g
    <2>5. IsAfter(g, actions, n)
      BY <2>2, <2>3, <2>4 DEF IsAfter
    <2>6. QED
      BY <1>3, <2>5
  <1>6. QED
    BY <1>4, <1>5

LEMMA AfterIs ==
  ASSUME NEW actions, Len(actions) \in Nat
  PROVE  IsAfter(After(actions), actions, Len(actions))
  <1> DEFINE N == Len(actions)
             Rec(f) == f = [n \in 0 .. N |-> IF n = 0 THEN {table}
                                             ELSE Perform(f[n - 1], actions[n])]
  <1>1. PICK f : IsAfter(f, actions, N)
    BY AfterExists
  <1> DEFINE g == [n \in 0 .. N |-> f[n]]
  <1>2. ASSUME NEW n \in 0 .. N
        PROVE  g[n] = IF n = 0 THEN {table} ELSE Perform(g[n - 1], actions[n])
    <2>1. CASE n = 0
      BY <2>1, <1>1 DEF IsAfter
    <2>2. CASE n # 0
      <3>1. n \in 1 .. N /\ n - 1 \in 0 .. N
        BY <2>2
      <3>2. f[n] = Perform(f[n - 1], actions[n])
        BY <3>1, <1>1, Zenon DEF IsAfter
      <3>3. g[n] = f[n] /\ g[n - 1] = f[n - 1]
        BY <3>1
      <3> HIDE DEF g
      <3>4. QED
        BY <2>2, <3>2, <3>3
    <2>3. QED
      BY <2>1, <2>2
  <1>3. g = [n \in 0 .. N |-> g[n]]
    OBVIOUS
  <1> HIDE DEF g
  <1>4. Rec(g)
    BY <1>2, <1>3
  <1>5. After(actions) = CHOOSE a : Rec(a)
    BY DEF After
  <1> HIDE DEF Rec
  <1>6. Rec(After(actions))
    BY <1>4, <1>5
  <1> DEFINE a == After(actions)
  <1>7. a = [n \in 0 .. N |-> IF n = 0 THEN {table} ELSE Perform(a[n - 1], actions[n])]
    BY <1>6 DEF Rec
  <1> HIDE DEF a
  <1>8. a[0] = {table}
    BY <1>7
  <1>9. ASSUME NEW k \in 1 .. N PROVE a[k] = Perform(a[k - 1], actions[k])
    <2>1. k \in 0 .. N /\ k # 0
      OBVIOUS
    <2>2. a[k] = IF k = 0 THEN {table} ELSE Perform(a[k - 1], actions[k])
      BY <1>7, <2>1, Zenon
    <2>3. QED
      BY <2>1, <2>2
  <1>10. QED
    BY <1>8, <1>9 DEF IsAfter, a

Copies == [Fds -> Ends \cup {Free}]

(* Copies of the table, as a child may have them.                          *)
AreCopies(T) == \A t \in T : t \in Copies

LEMMA ShutGives ==
  ASSUME NEW T, AreCopies(T), NEW n, NEW t \in Perform(T, Shut(n))
  PROVE  /\ t \in Copies
         /\ \E u \in T : \A m \in Fds : t[m] = IF m = n THEN Free ELSE u[m]
  <1>1. PICK u \in T : t = [u EXCEPT ![n] = Free]
    BY DEF Perform, Shut
  <1>2. u \in Copies
    BY DEF AreCopies
  <1>3. QED
    BY <1>1, <1>2 DEF Copies

LEMMA DupGives ==
  ASSUME NEW T, AreCopies(T), NEW n \in Fds, NEW k \in Fds, NEW t \in Perform(T, Dup(n, k))
  PROVE  /\ t \in Copies
         /\ \E u \in T : /\ u[n] # Free
                         /\ \A m \in Fds : t[m] = IF m = k THEN u[n] ELSE u[m]
  <1>1. PICK u \in T : u[n] # Free /\ t = [u EXCEPT ![k] = u[n]]
    BY DEF Perform, Dup
  <1>2. u \in Copies
    BY DEF AreCopies
  <1>3. QED
    BY <1>1, <1>2 DEF Copies

(* Ends that are open have numbers of their own, and the table has them.   *)
LEMMA OpenEnds ==
  ASSUME WInv, NEW p \in Ids, NEW pipe \in Kinds, NEW side \in {"r", "w"},
         Opened(p, pipe)
  PROVE  LET n == fd[<<p, pipe, side>>] IN
         n \in Fds /\ n # 2 /\ table[n] = <<p, pipe, side>>
  <1> DEFINE e == <<p, pipe, side>>
  <1>1. e \in Ends /\ fd[e] \in Fds
    BY EndType DEF Kinds, Opened
  <1> HIDE DEF e
  <1>2. owners[fd[e]] = e
    BY <1>1 DEF WInv, IInv, OwnersAgree
  <1>3. fd[e] # 2
    BY <1>1, <1>2, FreeAssumption DEF WInv, IInv, ErrorsInv
  <1>4. table[fd[e]] = e
    BY <1>1, <1>2, <1>3 DEF WInv, IInv, OwnersAgree
  <1>5. QED
    BY <1>1, <1>3, <1>4 DEF e

(* The actions as a list, with and without an input.                       *)
LEMMA ActionsWithInput ==
  ASSUME NEW p \in Inputs, NEW f, f = FileActions(p)
  PROVE  /\ Len(f) = 12
         /\ f[1] = Shut(fd[<<p, "in", "w">>])
         /\ f[2] = Shut(fd[<<p, "out", "r">>]) /\ f[3] = Shut(fd[<<p, "err", "r">>])
         /\ f[4] = Shut(0) /\ f[5] = Shut(1) /\ f[6] = Shut(2)
         /\ f[7] = Dup(fd[<<p, "in", "r">>], 0)
         /\ f[8] = Dup(fd[<<p, "out", "w">>], 1) /\ f[9] = Dup(fd[<<p, "err", "w">>], 2)
         /\ f[10] = Shut(fd[<<p, "in", "r">>])
         /\ f[11] = Shut(fd[<<p, "out", "w">>]) /\ f[12] = Shut(fd[<<p, "err", "w">>])
  BY DEF FileActions

LEMMA ActionsWithoutInput ==
  ASSUME NEW p \in Ids \ Inputs, NEW f, f = FileActions(p)
  PROVE  /\ Len(f) = 9
         /\ f[1] = Shut(fd[<<p, "out", "r">>]) /\ f[2] = Shut(fd[<<p, "err", "r">>])
         /\ f[3] = Shut(0) /\ f[4] = Shut(1) /\ f[5] = Shut(2)
         /\ f[6] = Dup(fd[<<p, "out", "w">>], 1) /\ f[7] = Dup(fd[<<p, "err", "w">>], 2)
         /\ f[8] = Shut(fd[<<p, "out", "w">>]) /\ f[9] = Shut(fd[<<p, "err", "w">>])
  BY DEF FileActions

(* Closing never refuses; of no copies there are none.                     *)
LEMMA ShutLeaves ==
  ASSUME NEW T, NEW n
  PROVE  Perform(T, Shut(n)) = {} <=> T = {}
  <1>1. Perform(T, Shut(n)) = {[t EXCEPT ![n] = Free] : t \in T}
    BY DEF Perform, Shut
  <1>2. QED
    BY <1>1

LEMMA DupOfNone ==
  ASSUME NEW n, NEW k
  PROVE  Perform({}, Dup(n, k)) = {}
  BY DEF Perform, Dup

(* All copies have v as the descriptor m.                                  *)
Have(T, m, v) == \A t \in T : t[m] = v

LEMMA ShutKeeps ==
  ASSUME NEW T, AreCopies(T), NEW n
  PROVE  /\ AreCopies(Perform(T, Shut(n)))
         /\ n \in Fds => Have(Perform(T, Shut(n)), n, Free)
         /\ \A m \in Fds : \A v : Have(T, m, v) /\ (n # m \/ v = Free) =>
                Have(Perform(T, Shut(n)), m, v)
  <1>1. AreCopies(Perform(T, Shut(n)))
    BY ShutGives DEF AreCopies
  <1>2. n \in Fds => Have(Perform(T, Shut(n)), n, Free)
    BY ShutGives DEF Have
  <1>3. ASSUME NEW m \in Fds, NEW v, Have(T, m, v), n # m \/ v = Free,
               NEW t \in Perform(T, Shut(n))
        PROVE  t[m] = v
    <2>1. PICK u \in T : \A k \in Fds : t[k] = IF k = n THEN Free ELSE u[k]
      BY ShutGives
    <2>2. t[m] = IF m = n THEN Free ELSE u[m]
      BY <2>1
    <2>3. u[m] = v
      BY <1>3 DEF Have
    <2>4. QED
      BY <1>3, <2>2, <2>3
  <1>4. QED
    BY <1>1, <1>2, <1>3 DEF Have

(* A copy in which n is not open is not duplicated.                        *)
LEMMA DupKeeps ==
  ASSUME NEW T, AreCopies(T), NEW n \in Fds, NEW k \in Fds,
         NEW U, U = Perform(T, Dup(n, k))
  PROVE  /\ AreCopies(U)
         /\ \A v : Have(T, n, v) => Have(U, k, v)
         /\ Have(T, n, Free) => U = {}
         /\ \A v : Have(T, n, v) /\ v # Free /\ T # {} => U # {}
         /\ \A m \in Fds \ {k} : \A v : Have(T, m, v) => Have(U, m, v)
  <1>1. AreCopies(Perform(T, Dup(n, k)))
    BY DupGives DEF AreCopies
  <1>2. ASSUME NEW v, Have(T, n, v), NEW t \in Perform(T, Dup(n, k)) PROVE t[k] = v
    <2>1. PICK u \in T : u[n] # Free /\ \A m \in Fds : t[m] = IF m = k THEN u[n] ELSE u[m]
      BY <1>2, DupGives
    <2>2. t[k] = u[n]
      BY <2>1
    <2>3. QED
      BY <1>2, <2>2 DEF Have
  <1>3. ASSUME Have(T, n, Free), NEW t \in Perform(T, Dup(n, k)) PROVE FALSE
    <2>1. PICK u \in T : u[n] # Free /\ \A m \in Fds : t[m] = IF m = k THEN u[n] ELSE u[m]
      BY <1>3, DupGives
    <2>2. QED
      BY <1>3, <2>1 DEF Have
  <1>4. ASSUME NEW m \in Fds \ {k}, NEW v, Have(T, m, v), NEW t \in Perform(T, Dup(n, k))
        PROVE  t[m] = v
    <2>1. PICK u \in T : u[n] # Free /\ \A j \in Fds : t[j] = IF j = k THEN u[n] ELSE u[j]
      BY <1>4, DupGives
    <2>2. t[m] = u[m]
      BY <2>1
    <2>3. QED
      BY <1>4, <2>2 DEF Have
  <1>5. ASSUME NEW v, Have(T, n, v), v # Free, T # {} PROVE Perform(T, Dup(n, k)) # {}
    BY <1>5 DEF Have, Perform, Dup
  <1>6. QED
    BY <1>1, <1>2, <1>3, <1>4, <1>5 DEF Have

(* Closing three descriptors, as is done before and between and after.     *)
ShutThree(T, a, b, c) == Perform(Perform(Perform(T, Shut(a)), Shut(b)), Shut(c))

LEMMA ThreeShut ==
  ASSUME NEW T, AreCopies(T), NEW a, NEW b, NEW c,
         NEW U, U = ShutThree(T, a, b, c)
  PROVE  /\ AreCopies(U)
         /\ \A m \in Fds : m \in {a, b, c} => Have(U, m, Free)
         /\ \A m \in Fds : \A v : Have(T, m, v) /\ m \notin {a, b, c} => Have(U, m, v)
         /\ U = {} <=> T = {}
  <1> DEFINE T1 == Perform(T, Shut(a))
             T2 == Perform(T1, Shut(b))
  <1>1. /\ AreCopies(T1)
        /\ a \in Fds => Have(T1, a, Free)
        /\ \A m \in Fds : \A v : Have(T, m, v) /\ (a # m \/ v = Free) => Have(T1, m, v)
    BY ShutKeeps
  <1>2. U = Perform(T2, Shut(c))
    BY DEF ShutThree
  <1> HIDE DEF T1
  <1>3. /\ AreCopies(T2)
        /\ b \in Fds => Have(T2, b, Free)
        /\ \A m \in Fds : \A v : Have(T1, m, v) /\ (b # m \/ v = Free) => Have(T2, m, v)
    BY <1>1, ShutKeeps
  <1> HIDE DEF T2
  <1>4. /\ AreCopies(U)
        /\ c \in Fds => Have(U, c, Free)
        /\ \A m \in Fds : \A v : Have(T2, m, v) /\ (c # m \/ v = Free) => Have(U, m, v)
    BY <1>2, <1>3, ShutKeeps
  <1>5. U = {} <=> T = {}
    BY ShutLeaves DEF ShutThree
  <1>6. QED
    BY <1>1, <1>3, <1>4, <1>5

LEMMA TheTable ==
  ASSUME WInv
  PROVE  AreCopies({table}) /\ \A m \in Fds : Have({table}, m, table[m])
  BY DEF WInv, IInv, TypesInv, Copies, AreCopies, Have

(* What a child has as its standard descriptors.                           *)
Wiring(p, n) == IF fd[<<p, "err", "w">>] = 1 THEN MixedEnd(p, n) ELSE OwnEnd(p, n)

(* With its own input, output and errors.                                  *)
LEMMA WithInput ==
  ASSUME WInv, NEW p \in Ids, p \in Inputs, place[p] = "spawn"
  PROVE  /\ AreCopies(Inherited(p))
         /\ \A n \in 0 .. 2 : Have(Inherited(p), n, Wiring(p, n))
         /\ Inherited(p) = {} => StandardTaken(p)
  <1> DEFINE f == FileActions(p)
             a == After(f)
             ir == fd[<<p, "in", "r">>]
             iw == fd[<<p, "in", "w">>]
             or == fd[<<p, "out", "r">>]
             ow == fd[<<p, "out", "w">>]
             er == fd[<<p, "err", "r">>]
             ew == fd[<<p, "err", "w">>]
  <1>1. /\ ir \in Fds /\ iw \in Fds /\ or \in Fds /\ ow \in Fds /\ er \in Fds /\ ew \in Fds
        /\ table[ir] = <<p, "in", "r">> /\ table[iw] = <<p, "in", "w">>
        /\ table[or] = <<p, "out", "r">> /\ table[ow] = <<p, "out", "w">>
        /\ table[er] = <<p, "err", "r">> /\ table[ew] = <<p, "err", "w">>
    <2>1. Opened(p, "in") /\ Opened(p, "out") /\ Opened(p, "err")
      BY DEF WInv, OpenedInv
    <2>2. QED
      BY <2>1, OpenEnds DEF Kinds
  <1>2. ir # 2 /\ ow \notin {0, 2} /\ ew \notin {0, 2}
    <2>1. Opened(p, "in") /\ Opened(p, "out") /\ Opened(p, "err")
      BY DEF WInv, OpenedInv
    <2>2. ir # 2 /\ ow # 2 /\ ew # 2
      BY <2>1, OpenEnds DEF Kinds
    <2>3. QED
      BY <2>2 DEF WInv, NumbersInv, Kinds
  <1>3. IsAfter(a, f, 12) /\ Inherited(p) = a[12]
    <2>1. Len(f) = 12
      BY ActionsWithInput
    <2>2. Inherited(p) = a[Len(f)]
      BY DEF Inherited
    <2> HIDE DEF f
    <2>3. Len(f) \in Nat
      BY <2>1
    <2>4. IsAfter(After(f), f, Len(f))
      BY <2>3, AfterIs, Zenon
    <2>5. QED
      BY <2>1, <2>2, <2>4
  <1>4. /\ f[1] = Shut(iw) /\ f[2] = Shut(or) /\ f[3] = Shut(er)
        /\ f[4] = Shut(0) /\ f[5] = Shut(1) /\ f[6] = Shut(2)
        /\ f[7] = Dup(ir, 0) /\ f[8] = Dup(ow, 1) /\ f[9] = Dup(ew, 2)
        /\ f[10] = Shut(ir) /\ f[11] = Shut(ow) /\ f[12] = Shut(ew)
    BY ActionsWithInput
  <1> HIDE DEF f, a, ir, iw, or, ow, er, ew
  <1>5. PICK b : /\ b = a /\ b[0] = {table}
                 /\ b[1] = Perform(b[0], f[1]) /\ b[2] = Perform(b[1], f[2]) /\ b[3] = Perform(b[2], f[3])
                 /\ b[4] = Perform(b[3], f[4]) /\ b[5] = Perform(b[4], f[5]) /\ b[6] = Perform(b[5], f[6])
                 /\ b[7] = Perform(b[6], f[7]) /\ b[8] = Perform(b[7], f[8]) /\ b[9] = Perform(b[8], f[9])
                 /\ b[10] = Perform(b[9], f[10]) /\ b[11] = Perform(b[10], f[11])
                 /\ b[12] = Perform(b[11], f[12])
    <2>1. ASSUME NEW k \in 1 .. 12 PROVE a[k] = Perform(a[k - 1], f[k])
      BY <1>3 DEF IsAfter
    <2>2. a[0] = {table}
      BY <1>3 DEF IsAfter
    <2>3. PICK b : b = a
      OBVIOUS
    <2>4. QED
      BY <2>1, <2>2, <2>3
  <1>6. /\ 0 \in Fds /\ 1 \in Fds /\ 2 \in Fds
    BY ConstantsAssumption DEF Fds
  <1>7. /\ ow # ew /\ ir # ow /\ ir # ew
        /\ ir \notin {iw, or, er} /\ ow \notin {iw, or, er} /\ ew \notin {iw, or, er}
    BY <1>1
  <1>8. /\ AreCopies(b[3]) /\ b[3] # {}
        /\ Have(b[3], ir, <<p, "in", "r">>)
        /\ Have(b[3], ow, <<p, "out", "w">>)
        /\ Have(b[3], ew, <<p, "err", "w">>)
    <2>1. b[3] = ShutThree({table}, iw, or, er)
      BY <1>4, <1>5 DEF ShutThree
    <2>2. AreCopies({table})
      BY TheTable
    <2>3. /\ AreCopies(b[3]) /\ b[3] # {}
          /\ \A m \in Fds : \A v : Have({table}, m, v) /\ m \notin {iw, or, er} => Have(b[3], m, v)
      <3>1. PICK T : T = {table} /\ T # {}
        OBVIOUS
      <3>2. AreCopies(T) /\ b[3] = ShutThree(T, iw, or, er)
        BY <2>1, <2>2, <3>1
      <3>3. /\ AreCopies(b[3]) /\ (b[3] = {} <=> T = {})
            /\ \A m \in Fds : \A v : Have(T, m, v) /\ m \notin {iw, or, er} => Have(b[3], m, v)
        BY <3>2, ThreeShut
      <3>4. QED
        BY <3>1, <3>3
    <2>4. /\ Have({table}, ir, <<p, "in", "r">>) /\ Have({table}, ow, <<p, "out", "w">>)
          /\ Have({table}, ew, <<p, "err", "w">>)
      BY <1>1, TheTable
    <2>5. QED
      BY <1>1, <1>7, <2>3, <2>4
  <1>9. /\ AreCopies(b[6]) /\ b[6] # {}
        /\ Have(b[6], 0, Free) /\ Have(b[6], 1, Free) /\ Have(b[6], 2, Free)
        /\ ir \notin {0, 1, 2} => Have(b[6], ir, <<p, "in", "r">>)
        /\ ow \notin {0, 1, 2} => Have(b[6], ow, <<p, "out", "w">>)
        /\ ew \notin {0, 1, 2} => Have(b[6], ew, <<p, "err", "w">>)
    <2>1. b[6] = ShutThree(b[3], 0, 1, 2)
      BY <1>4, <1>5 DEF ShutThree
    <2>2. /\ AreCopies(b[6]) /\ b[6] # {}
          /\ \A m \in Fds : m \in {0, 1, 2} => Have(b[6], m, Free)
          /\ \A m \in Fds : \A v : Have(b[3], m, v) /\ m \notin {0, 1, 2} => Have(b[6], m, v)
      BY <1>8, <2>1, ThreeShut
    <2>3. QED
      BY <1>1, <1>6, <1>8, <2>2
  <1>10. /\ AreCopies(b[7]) /\ AreCopies(b[8]) /\ AreCopies(b[9])
         /\ Have(b[6], ir, Free) => b[7] = {}
         /\ \A v : Have(b[6], ir, v) /\ v # Free /\ b[6] # {} => b[7] # {}
         /\ \A v : Have(b[6], ir, v) => Have(b[7], 0, v)
         /\ \A m \in Fds \ {0} : \A v : Have(b[6], m, v) => Have(b[7], m, v)
         /\ Have(b[7], ow, Free) => b[8] = {}
         /\ \A v : Have(b[7], ow, v) /\ v # Free /\ b[7] # {} => b[8] # {}
         /\ \A v : Have(b[7], ow, v) => Have(b[8], 1, v)
         /\ \A m \in Fds \ {1} : \A v : Have(b[7], m, v) => Have(b[8], m, v)
         /\ Have(b[8], ew, Free) => b[9] = {}
         /\ \A v : Have(b[8], ew, v) /\ v # Free /\ b[8] # {} => b[9] # {}
         /\ \A v : Have(b[8], ew, v) => Have(b[9], 2, v)
         /\ \A m \in Fds \ {2} : \A v : Have(b[8], m, v) => Have(b[9], m, v)
    <2>1. b[7] = Perform(b[6], Dup(ir, 0))
      BY <1>4, <1>5
    <2>2. /\ AreCopies(b[7])
          /\ Have(b[6], ir, Free) => b[7] = {}
          /\ \A v : Have(b[6], ir, v) /\ v # Free /\ b[6] # {} => b[7] # {}
          /\ \A v : Have(b[6], ir, v) => Have(b[7], 0, v)
          /\ \A m \in Fds \ {0} : \A v : Have(b[6], m, v) => Have(b[7], m, v)
      <3>1. AreCopies(b[6]) /\ ir \in Fds /\ 0 \in Fds
        BY <1>1, <1>6, <1>9
      <3>2. QED
        BY <2>1, <3>1, DupKeeps
    <2>3. b[8] = Perform(b[7], Dup(ow, 1))
      BY <1>4, <1>5
    <2>4. /\ AreCopies(b[8])
          /\ Have(b[7], ow, Free) => b[8] = {}
          /\ \A v : Have(b[7], ow, v) /\ v # Free /\ b[7] # {} => b[8] # {}
          /\ \A v : Have(b[7], ow, v) => Have(b[8], 1, v)
          /\ \A m \in Fds \ {1} : \A v : Have(b[7], m, v) => Have(b[8], m, v)
      <3>1. AreCopies(b[7]) /\ ow \in Fds /\ 1 \in Fds
        BY <1>1, <1>6, <2>2
      <3>2. QED
        BY <2>3, <3>1, DupKeeps
    <2>5. b[9] = Perform(b[8], Dup(ew, 2))
      BY <1>4, <1>5
    <2>6. /\ AreCopies(b[9])
          /\ Have(b[8], ew, Free) => b[9] = {}
          /\ \A v : Have(b[8], ew, v) /\ v # Free /\ b[8] # {} => b[9] # {}
          /\ \A v : Have(b[8], ew, v) => Have(b[9], 2, v)
          /\ \A m \in Fds \ {2} : \A v : Have(b[8], m, v) => Have(b[9], m, v)
      <3>1. AreCopies(b[8]) /\ ew \in Fds /\ 2 \in Fds
        BY <1>1, <1>6, <2>4
      <3>2. QED
        BY <2>5, <3>1, DupKeeps
    <2>7. QED
      BY <2>2, <2>4, <2>6
  <1>11. /\ AreCopies(b[12]) /\ (b[9] # {} => b[12] # {})
         /\ \A m \in Fds : m \in {ir, ow, ew} => Have(b[12], m, Free)
         /\ \A m \in Fds : \A v : Have(b[9], m, v) /\ m \notin {ir, ow, ew} => Have(b[12], m, v)
    <2>1. b[12] = ShutThree(b[9], ir, ow, ew)
      BY <1>4, <1>5 DEF ShutThree
    <2>2. QED
      <3>1. AreCopies(b[9])
        BY <1>10
      <3>2. QED
        BY <2>1, <3>1, ThreeShut
  <1>12. /\ b[7] = {} => b[8] = {}
         /\ b[8] = {} => b[9] = {}
         /\ b[9] = {} => b[12] = {}
         /\ \A n \in 0 .. 2 : b[12] = {} => Have(b[12], n, Wiring(p, n))
    <2>1. (b[7] = {} => b[8] = {}) /\ (b[8] = {} => b[9] = {})
      BY <1>4, <1>5, DupOfNone
    <2>2. b[9] = {} => b[12] = {}
      BY <1>4, <1>5, ShutLeaves
    <2>3. QED
      BY <2>1, <2>2 DEF Have
  <1>13. <<p, "in", "r">> # Free /\ <<p, "out", "w">> # Free /\ <<p, "err", "w">> # Free
    BY EndType, FreeAssumption
  <1>14. StandardTaken(p) <=> ow = 1 \/ ir \in {0, 1}
    BY DEF StandardTaken, ow, ir
  <1>15. \A n \in 0 .. 2 : Wiring(p, n) =
            CASE n = 0 -> <<p, "in", "r">>
              [] n = 1 -> IF ew = 1 THEN Free ELSE <<p, "out", "w">>
              [] n = 2 -> IF ew = 1 THEN <<p, "out", "w">> ELSE <<p, "err", "w">>
    BY DEF Wiring, MixedEnd, OwnEnd, ew
  <1>16. (\A n \in 0 .. 2 : Have(b[12], n, Wiring(p, n))) /\ (b[12] = {} => StandardTaken(p))
    <2>1. CASE ir \in {0, 1}
      <3>1. Have(b[6], ir, Free)
        BY <1>9, <2>1
      <3>2. b[12] = {}
        BY <1>10, <1>12, <3>1
      <3>3. QED
        BY <1>12, <1>14, <2>1, <3>2
    <2>2. CASE ir \notin {0, 1}
      <3>1. ir \notin {0, 1, 2}
        BY <1>2, <2>2
      <3>2. Have(b[7], 0, <<p, "in", "r">>) /\ Have(b[7], 1, Free) /\ b[7] # {}
        BY <1>6, <1>9, <1>10, <1>13, <3>1
      <3>3. /\ ow # 1 => Have(b[7], ow, <<p, "out", "w">>)
            /\ ew # 1 => Have(b[7], ew, <<p, "err", "w">>)
        BY <1>1, <1>2, <1>9, <1>10
      <3>4. CASE ow = 1
        <4>1. Have(b[7], ow, Free)
          BY <3>2, <3>4
        <4>2. b[12] = {}
          BY <1>10, <1>12, <4>1
        <4>3. QED
          BY <1>12, <1>14, <3>4, <4>2
      <3>5. CASE ow # 1
        <4>1. Have(b[8], 0, <<p, "in", "r">>) /\ Have(b[8], 1, <<p, "out", "w">>) /\ b[8] # {}
          BY <1>6, <1>10, <1>13, <3>2, <3>3, <3>5
        <4>2. ew # 1 => Have(b[8], ew, <<p, "err", "w">>)
          BY <1>1, <1>10, <3>3
        <4>3. /\ Have(b[9], 0, <<p, "in", "r">>) /\ Have(b[9], 1, <<p, "out", "w">>) /\ b[9] # {}
              /\ Have(b[9], 2, IF ew = 1 THEN <<p, "out", "w">> ELSE <<p, "err", "w">>)
          BY <1>6, <1>10, <1>13, <4>1, <4>2
        <4>4. b[12] # {} /\ Have(b[12], 0, <<p, "in", "r">>)
          BY <1>2, <1>6, <1>11, <3>1, <4>3
        <4>5. Have(b[12], 1, IF ew = 1 THEN Free ELSE <<p, "out", "w">>)
          BY <1>6, <1>11, <3>1, <3>5, <4>3
        <4>6. Have(b[12], 2, IF ew = 1 THEN <<p, "out", "w">> ELSE <<p, "err", "w">>)
          BY <1>2, <1>6, <1>11, <4>3
        <4>7. ASSUME NEW n \in 0 .. 2 PROVE Have(b[12], n, Wiring(p, n))
          BY <1>15, <4>4, <4>5, <4>6
        <4>8. QED
          BY <4>4, <4>7
      <3>6. QED
        BY <3>4, <3>5
    <2>3. QED
      BY <2>1, <2>2
  <1>17. QED
    BY <1>3, <1>5, <1>11, <1>16

(* Without an input nothing is open as its standard input.                 *)
LEMMA WithoutInput ==
  ASSUME WInv, NEW p \in Ids, p \notin Inputs, place[p] = "spawn"
  PROVE  /\ AreCopies(Inherited(p))
         /\ \A n \in 0 .. 2 : Have(Inherited(p), n, Wiring(p, n))
         /\ Inherited(p) = {} => StandardTaken(p)
  <1> DEFINE f == FileActions(p)
             a == After(f)
             or == fd[<<p, "out", "r">>]
             ow == fd[<<p, "out", "w">>]
             er == fd[<<p, "err", "r">>]
             ew == fd[<<p, "err", "w">>]
  <1>1. /\ or \in Fds /\ ow \in Fds /\ er \in Fds /\ ew \in Fds
        /\ table[or] = <<p, "out", "r">> /\ table[ow] = <<p, "out", "w">>
        /\ table[er] = <<p, "err", "r">> /\ table[ew] = <<p, "err", "w">>
    <2>1. Opened(p, "out") /\ Opened(p, "err")
      BY DEF WInv, OpenedInv
    <2>2. QED
      BY <2>1, OpenEnds DEF Kinds
  <1>2. ow \notin {0, 2} /\ ew \notin {0, 2}
    <2>1. Opened(p, "out") /\ Opened(p, "err")
      BY DEF WInv, OpenedInv
    <2>2. ow # 2 /\ ew # 2
      BY <2>1, OpenEnds DEF Kinds
    <2>3. QED
      BY <2>2 DEF WInv, NumbersInv, Kinds
  <1>3. IsAfter(a, f, 9) /\ Inherited(p) = a[9]
    <2>1. Len(f) = 9
      BY ActionsWithoutInput
    <2>2. Inherited(p) = a[Len(f)]
      BY DEF Inherited
    <2> HIDE DEF f
    <2>3. Len(f) \in Nat
      BY <2>1
    <2>4. IsAfter(After(f), f, Len(f))
      BY <2>3, AfterIs, Zenon
    <2>5. QED
      BY <2>1, <2>2, <2>4
  <1>4. /\ f[1] = Shut(or) /\ f[2] = Shut(er)
        /\ f[3] = Shut(0) /\ f[4] = Shut(1) /\ f[5] = Shut(2)
        /\ f[6] = Dup(ow, 1) /\ f[7] = Dup(ew, 2)
        /\ f[8] = Shut(ow) /\ f[9] = Shut(ew)
    BY ActionsWithoutInput
  <1> HIDE DEF f, a, or, ow, er, ew
  <1>5. PICK b : /\ b = a /\ b[0] = {table}
                 /\ b[1] = Perform(b[0], f[1]) /\ b[2] = Perform(b[1], f[2])
                 /\ b[3] = Perform(b[2], f[3]) /\ b[4] = Perform(b[3], f[4])
                 /\ b[5] = Perform(b[4], f[5]) /\ b[6] = Perform(b[5], f[6])
                 /\ b[7] = Perform(b[6], f[7]) /\ b[8] = Perform(b[7], f[8])
                 /\ b[9] = Perform(b[8], f[9])
    <2>1. ASSUME NEW k \in 1 .. 9 PROVE a[k] = Perform(a[k - 1], f[k])
      BY <1>3 DEF IsAfter
    <2>2. a[0] = {table}
      BY <1>3 DEF IsAfter
    <2>3. PICK b : b = a
      OBVIOUS
    <2>4. QED
      BY <2>1, <2>2, <2>3
  <1>6. /\ 0 \in Fds /\ 1 \in Fds /\ 2 \in Fds
    BY ConstantsAssumption DEF Fds
  <1>7. ow # ew /\ ow \notin {or, er} /\ ew \notin {or, er}
    BY <1>1
  <1>8. AreCopies(b[2]) /\ b[2] # {} /\ Have(b[2], ow, <<p, "out", "w">>) /\ Have(b[2], ew, <<p, "err", "w">>)
    <2>1. b[1] = Perform(b[0], Shut(or)) /\ b[2] = Perform(b[1], Shut(er))
      BY <1>4, <1>5
    <2>2. AreCopies(b[0]) /\ Have(b[0], ow, <<p, "out", "w">>) /\ Have(b[0], ew, <<p, "err", "w">>)
      BY <1>1, <1>5, TheTable
    <2>3. AreCopies(b[1]) /\ Have(b[1], ow, <<p, "out", "w">>) /\ Have(b[1], ew, <<p, "err", "w">>)
      BY <1>1, <1>7, <2>1, <2>2, ShutKeeps
    <2>4. b[2] # {}
      BY <1>5, <2>1, ShutLeaves
    <2>5. QED
      BY <1>1, <1>7, <2>1, <2>3, <2>4, ShutKeeps
  <1>9. /\ AreCopies(b[5]) /\ b[5] # {} /\ Have(b[5], 0, Free) /\ Have(b[5], 1, Free)
        /\ ow \notin {0, 1, 2} => Have(b[5], ow, <<p, "out", "w">>)
        /\ ew \notin {0, 1, 2} => Have(b[5], ew, <<p, "err", "w">>)
    <2>1. b[5] = ShutThree(b[2], 0, 1, 2)
      BY <1>4, <1>5 DEF ShutThree
    <2>2. /\ AreCopies(b[5]) /\ b[5] # {}
          /\ \A m \in Fds : m \in {0, 1, 2} => Have(b[5], m, Free)
          /\ \A m \in Fds : \A v : Have(b[2], m, v) /\ m \notin {0, 1, 2} => Have(b[5], m, v)
      BY <1>8, <2>1, ThreeShut
    <2>3. QED
      BY <1>1, <1>6, <1>8, <2>2
  <1>10. /\ AreCopies(b[6])
         /\ Have(b[5], ow, Free) => b[6] = {}
         /\ \A v : Have(b[5], ow, v) /\ v # Free /\ b[5] # {} => b[6] # {}
         /\ \A v : Have(b[5], ow, v) => Have(b[6], 1, v)
         /\ \A m \in Fds \ {1} : \A v : Have(b[5], m, v) => Have(b[6], m, v)
    <2>1. b[6] = Perform(b[5], Dup(ow, 1))
      BY <1>4, <1>5
    <2>2. AreCopies(b[5]) /\ ow \in Fds /\ 1 \in Fds
      BY <1>1, <1>6, <1>9
    <2>3. QED
      BY <2>1, <2>2, DupKeeps
  <1>11. /\ AreCopies(b[7])
         /\ \A v : Have(b[6], ew, v) /\ v # Free /\ b[6] # {} => b[7] # {}
         /\ \A v : Have(b[6], ew, v) => Have(b[7], 2, v)
         /\ \A m \in Fds \ {2} : \A v : Have(b[6], m, v) => Have(b[7], m, v)
    <2>1. b[7] = Perform(b[6], Dup(ew, 2))
      BY <1>4, <1>5
    <2>2. AreCopies(b[6]) /\ ew \in Fds /\ 2 \in Fds
      BY <1>1, <1>6, <1>10
    <2>3. QED
      BY <2>1, <2>2, DupKeeps
  <1>12. /\ AreCopies(b[9]) /\ (b[7] # {} => b[9] # {})
         /\ \A m \in Fds : m \in {ow, ew} => Have(b[9], m, Free)
         /\ \A m \in Fds : \A v : Have(b[7], m, v) /\ m \notin {ow, ew} => Have(b[9], m, v)
    <2>1. b[8] = Perform(b[7], Shut(ow)) /\ b[9] = Perform(b[8], Shut(ew))
      BY <1>4, <1>5
    <2>2. AreCopies(b[7])
      BY <1>11
    <2>3. /\ AreCopies(b[8]) /\ Have(b[8], ow, Free)
          /\ \A m \in Fds : \A v : Have(b[7], m, v) /\ m # ow => Have(b[8], m, v)
      BY <1>1, <2>1, <2>2, ShutKeeps
    <2>4. b[7] # {} => b[9] # {}
      BY <2>1, ShutLeaves
    <2>5. /\ AreCopies(b[9]) /\ Have(b[9], ew, Free) /\ Have(b[9], ow, Free)
          /\ \A m \in Fds : \A v : Have(b[8], m, v) /\ m # ew => Have(b[9], m, v)
      BY <1>1, <2>1, <2>3, ShutKeeps
    <2>6. QED
      BY <2>3, <2>4, <2>5
  <1>13. /\ b[6] = {} => b[9] = {}
         /\ \A n \in 0 .. 2 : b[9] = {} => Have(b[9], n, Wiring(p, n))
    <2>1. b[6] = {} => b[7] = {}
      BY <1>4, <1>5, DupOfNone
    <2>2. b[7] = {} => b[9] = {}
      BY <1>4, <1>5, ShutLeaves
    <2>3. QED
      BY <2>1, <2>2 DEF Have
  <1>14. <<p, "out", "w">> # Free /\ <<p, "err", "w">> # Free
    BY EndType, FreeAssumption
  <1>15. ow = 1 => StandardTaken(p)
    BY DEF StandardTaken, ow
  <1>16. \A n \in 0 .. 2 : Wiring(p, n) =
            CASE n = 0 -> Free
              [] n = 1 -> IF ew = 1 THEN Free ELSE <<p, "out", "w">>
              [] n = 2 -> IF ew = 1 THEN <<p, "out", "w">> ELSE <<p, "err", "w">>
    BY DEF Wiring, MixedEnd, OwnEnd, ew
  <1>17. (\A n \in 0 .. 2 : Have(b[9], n, Wiring(p, n))) /\ (b[9] = {} => StandardTaken(p))
    <2>1. CASE ow = 1
      BY <1>9, <1>10, <1>13, <1>15, <2>1
    <2>2. CASE ow # 1
      <3>1. /\ Have(b[6], 0, Free) /\ Have(b[6], 1, <<p, "out", "w">>) /\ b[6] # {}
            /\ ew # 1 => Have(b[6], ew, <<p, "err", "w">>)
        BY <1>1, <1>2, <1>6, <1>9, <1>10, <1>14, <2>2
      <3>2. /\ Have(b[7], 0, Free) /\ Have(b[7], 1, <<p, "out", "w">>) /\ b[7] # {}
            /\ Have(b[7], 2, IF ew = 1 THEN <<p, "out", "w">> ELSE <<p, "err", "w">>)
        BY <1>6, <1>11, <1>14, <3>1
      <3>3. b[9] # {} /\ Have(b[9], 0, Free)
        BY <1>2, <1>6, <1>12, <3>2
      <3>4. Have(b[9], 1, IF ew = 1 THEN Free ELSE <<p, "out", "w">>)
        BY <1>6, <1>12, <2>2, <3>2
      <3>5. Have(b[9], 2, IF ew = 1 THEN <<p, "out", "w">> ELSE <<p, "err", "w">>)
        BY <1>2, <1>6, <1>12, <3>2
      <3>6. ASSUME NEW n \in 0 .. 2 PROVE Have(b[9], n, Wiring(p, n))
        BY <1>16, <3>3, <3>4, <3>5
      <3>7. QED
        BY <3>3, <3>6
    <2>3. QED
      BY <2>1, <2>2
  <1>18. QED
    BY <1>3, <1>5, <1>12, <1>17

(* What a child may be started with, and what it is given.                 *)
LEMMA Wired ==
  ASSUME WInv, NEW p \in Ids, place[p] = "spawn"
  PROVE  /\ \A t \in Inherited(p) : t \in Copies /\ \A n \in 0 .. 2 : t[n] = Wiring(p, n)
         /\ Inherited(p) = {} => StandardTaken(p)
  <1>1. CASE p \in Inputs
    BY <1>1, WithInput DEF AreCopies, Have
  <1>2. CASE p \notin Inputs
    BY <1>2, WithoutInput DEF AreCopies, Have
  <1>3. QED
    BY <1>1, <1>2

(***************************************************************************)
(* The invariant with children.                                            *)
(***************************************************************************)
LEMMA InitiallyWired == Init => WInv
  <1> SUFFICES ASSUME Init PROVE WInv
    OBVIOUS
  <1>1. IInv
    BY Initially
  <1>2. \A e \in Ends : e # ControllerIn /\ e # ControllerOut => fd[e] = Closed
    BY DEF Init
  <1>3. \A p \in Ids, pipe \in Kinds, side \in {"r", "w"} : fd[<<p, pipe, side>>] = Closed
    <2> SUFFICES ASSUME NEW p \in Ids, NEW pipe \in Kinds, NEW side \in {"r", "w"}
                 PROVE  fd[<<p, pipe, side>>] = Closed
      OBVIOUS
    <2>1. /\ <<p, pipe, side>> \in Ends
          /\ <<p, pipe, side>> # ControllerIn /\ <<p, pipe, side>> # ControllerOut
      BY EndType, ConstantsAssumption DEF Kinds, ControllerIn, ControllerOut
    <2>2. QED
      BY <1>2, <2>1
  <1>4. NumbersInv
    <2> SUFFICES ASSUME NEW p \in Ids, NEW pipe \in Kinds PROVE fd[<<p, pipe, "w">>] # 0
      BY DEF NumbersInv
    <2>1. fd[<<p, pipe, "w">>] = Closed
      BY <1>3
    <2>2. QED
      BY <2>1 DEF Closed
  <1>5. OpenedInv
    BY DEF Init, OpenedInv
  <1>6. ChildrenOK
    BY DEF Init, ChildrenOK, NoStandard
  <1>7. QED
    BY <1>1, <1>4, <1>5, <1>6 DEF WInv

LEMMA SameChildren ==
  ASSUME WInv, UNCHANGED <<children, main>>
  PROVE  ChildrenOK'
  BY DEF WInv, ChildrenOK, children

LEMMA WiredInductive == WInv /\ [Next]_vars => WInv'
  <1> SUFFICES ASSUME WInv, [Next]_vars PROVE WInv'
    OBVIOUS
  <1>1. IInv'
    BY Inductive DEF WInv
  <1> USE DEF Kinds
  <1>2. ASSUME UNCHANGED <<place, fd>> PROVE OpenedInv' /\ NumbersInv'
    BY <1>2, SamePlaces
  <1>3. ASSUME NEW p \in Ids, NEW to \in Places \ {"err", "in", "spawn"},
               place' = [place EXCEPT ![p] = to], UNCHANGED fd
        PROVE  OpenedInv' /\ NumbersInv'
    BY <1>3, SameEnds, StepKeepsOpened
  <1>4. ASSUME NEW p \in Ids, Run(p) PROVE OpenedInv' /\ NumbersInv' /\ ChildrenOK'
    BY <1>3, <1>4, SameChildren DEF Run, descriptors, Places
  <1>5. ASSUME NEW p \in Ids, EndFeed(p) PROVE OpenedInv' /\ NumbersInv' /\ ChildrenOK'
    BY <1>5, CloseStep, SameChildren DEF EndFeed
  <1>6. ASSUME NEW p \in Ids, WriteFails(p) PROVE OpenedInv' /\ NumbersInv' /\ ChildrenOK'
    BY <1>6, CloseStep, SameChildren DEF WriteFails
  <1>7. ASSUME NEW p \in Ids, NEW pipe \in {"out", "err", "in"}, Pipe(p, pipe)
        PROVE  OpenedInv' /\ NumbersInv' /\ ChildrenOK'
    <2>1. OpenedInv' /\ NumbersInv'
      BY <1>7, PipeStep
    <2>2. QED
      BY <1>7, <2>1, SameChildren DEF Pipe
  <1>8. ASSUME NEW p \in Ids, PipeFails(p) \/ SpawnImpossible(p)
        PROVE  OpenedInv' /\ NumbersInv' /\ ChildrenOK'
    <2>1. UNCHANGED <<place, fd>> /\ UNCHANGED children /\ main' = "failed"
      BY <1>8 DEF PipeFails, SpawnImpossible, descriptors
    <2>2. QED
      BY <1>2, <2>1 DEF WInv, ChildrenOK, children
  <1>9. ASSUME NEW p \in Ids, SpawnFails(p) PROVE OpenedInv' /\ NumbersInv' /\ ChildrenOK'
    BY <1>3, <1>9, SameChildren DEF SpawnFails, Step, descriptors, Places
  <1>10. ASSUME NEW p \in Ids, Spawn(p) PROVE OpenedInv' /\ NumbersInv' /\ ChildrenOK'
    <2>1. PICK t \in Inherited(p) :
            /\ std' = [std EXCEPT ![p] = [n \in 0 .. 2 |-> t[n]]]
            /\ extra' = [extra EXCEPT ![p] = {t[n] : n \in Fds \ (0 .. 2)} \ {Free}]
      BY <1>10 DEF Spawn
    <2>2. t \in [Fds -> Ends \cup {Free}]
      BY <1>10, Wired DEF Spawn, Step, Copies
    <2>3. [n \in 0 .. 2 |-> t[n]] \in [0 .. 2 -> Ends \cup {Free}]
      BY <2>2, ConstantsAssumption DEF Fds
    <2>4. {t[n] : n \in Fds \ (0 .. 2)} \ {Free} \in SUBSET Ends
      BY <2>2
    <2>5. child' = [child EXCEPT ![p] = "alive"] /\ main' = main
      BY <1>10 DEF Spawn
    <2>6. ChildrenOK'
      BY <2>1, <2>3, <2>4, <2>5 DEF WInv, ChildrenOK
    <2>7. QED
      BY <1>3, <1>10, <2>6 DEF Spawn, Step, descriptors, Places
  <1>11. ASSUME NEW p \in Ids, CloseGiven(p) PROVE OpenedInv' /\ NumbersInv' /\ ChildrenOK'
    <2>1. <<p, "in", "r">> \in Ends /\ <<p, "out", "w">> \in Ends /\ <<p, "err", "w">> \in Ends
      BY EndType
    <2>2. Given(p) \in Seq(Ends) /\ \A i \in DOMAIN Given(p) : Given(p)[i][1] = p
      BY <2>1 DEF Given
    <2>3. QED
      BY <1>11, <2>2, CloseInOrderStep, SameChildren DEF CloseGiven, Places
  <1>12. ASSUME NEW p \in Ids, ReadEnds(p) PROVE OpenedInv' /\ NumbersInv' /\ ChildrenOK'
    <2>1. PICK pipe \in {"out", "err"} : Close(<<p, pipe, "r">>)
      BY <1>12 DEF ReadEnds
    <2>2. place[p] = "scan" /\ UNCHANGED place /\ UNCHANGED <<children, main>>
      BY <1>12 DEF ReadEnds
    <2>3. QED
      BY <2>1, <2>2, CloseStep, SameChildren
  <1>13. ASSUME NEW p \in Ids, Reap(p) PROVE OpenedInv' /\ NumbersInv' /\ ChildrenOK'
    BY <1>2, <1>13 DEF Reap, descriptors, WInv, ChildrenOK
  <1>14. ASSUME NEW p \in Ids, ScanEnds(p) PROVE OpenedInv' /\ NumbersInv' /\ ChildrenOK'
    BY <1>3, <1>14, SameChildren DEF ScanEnds, Step, descriptors, Places
  <1>15. ASSUME NEW p \in Ids, FreeEnds(p) PROVE OpenedInv' /\ NumbersInv' /\ ChildrenOK'
    <2>1. /\ <<p, "in", "r">> \in Ends /\ <<p, "out", "r">> \in Ends /\ <<p, "out", "w">> \in Ends
          /\ <<p, "in", "w">> \in Ends /\ <<p, "err", "r">> \in Ends /\ <<p, "err", "w">> \in Ends
      BY EndType
    <2>2. Rest(p) \in Seq(Ends) /\ \A i \in DOMAIN Rest(p) : Rest(p)[i][1] = p
      BY <2>1 DEF Rest
    <2>3. QED
      BY <1>15, <2>2, CloseInOrderStep, SameChildren DEF FreeEnds, Places
  <1>16. ASSUME NEW p \in Ids, Clean(p) PROVE OpenedInv' /\ NumbersInv' /\ ChildrenOK'
    BY <1>3, <1>16, SameChildren DEF Clean, Step, descriptors, Places
  <1>17. ASSUME NEW p \in Ids, ChildCloses(p) PROVE OpenedInv' /\ NumbersInv' /\ ChildrenOK'
    BY <1>2, <1>17 DEF ChildCloses, descriptors, WInv, ChildrenOK
  <1>18. ASSUME NEW p \in Ids, ChildEnds(p) PROVE OpenedInv' /\ NumbersInv' /\ ChildrenOK'
    BY <1>2, <1>18 DEF ChildEnds, descriptors, WInv, ChildrenOK, NoStandard
  <1>19. ASSUME LoseController PROVE OpenedInv' /\ NumbersInv' /\ ChildrenOK'
    <2>1. PICK e \in {ControllerIn, ControllerOut} : fd[e] \in Losable /\ Close(e)
      BY <1>19 DEF LoseController
    <2>2. e \in Ends /\ e[1] = Main /\ fd' = [fd EXCEPT ![e] = Closed]
      <3>1. ControllerIn \in Ends /\ ControllerOut \in Ends
        BY EndType DEF ControllerIn, ControllerOut
      <3>2. ControllerIn[1] = Main /\ ControllerOut[1] = Main
        BY DEF ControllerIn, ControllerOut
      <3>3. QED
        BY <2>1, <3>1, <3>2 DEF Close
    <2>3. NumbersInv'
      BY <2>2, CloseKeepsNumbers
    <2>4. \A p \in Ids, pipe \in Kinds : Opened(p, pipe) => Opened(p, pipe)'
      BY <2>2, CloseKeepsOpened, ConstantsAssumption
    <2>5. UNCHANGED place /\ UNCHANGED <<children, main>>
      BY <1>19 DEF LoseController
    <2>6. OpenedInv'
      BY <2>4, <2>5 DEF WInv, OpenedInv
    <2>7. QED
      BY <2>3, <2>5, <2>6, SameChildren
  <1>20. ASSUME MainExits PROVE OpenedInv' /\ NumbersInv' /\ ChildrenOK'
    BY <1>2, <1>20 DEF MainExits, descriptors, children, WInv, ChildrenOK
  <1>21. ASSUME UNCHANGED vars PROVE OpenedInv' /\ NumbersInv' /\ ChildrenOK'
    BY <1>2, <1>21, SameChildren DEF vars, descriptors
  <1>22. QED
    BY <1>1, <1>4, <1>5, <1>6, <1>7, <1>8, <1>9, <1>10, <1>11, <1>12, <1>13, <1>14, <1>15,
       <1>16, <1>17, <1>18, <1>19, <1>20, <1>21 DEF Next, Progress, Nap, WInv

(* Every variable keeps its shape, whatever a child inherits.              *)
THEOREM TypeCorrect == Spec => []TypeOK
  <1>1. WInv => TypeOK
    BY DEF WInv, IInv, TypesInv, ChildrenOK, TypeOK
  <1>2. QED
    BY InitiallyWired, WiredInductive, <1>1, PTL DEF Spec

(* Every child starts with its own pipes, whatever numbers their ends got, *)
(* whatever datalackey has lost and whatever other threads did meanwhile,  *)
(* but for the one that is to write its errors to 1: that one has no       *)
(* output and writes its errors where its output should go.                *)
THEOREM ChildrenAreWired == Spec => StartedWired
  <1> DEFINE A == \A p \in Ids : (child[p] = "none" /\ child'[p] = "alive") =>
                      \A n \in 0 .. 2 : std'[p][n] = Wiring(p, n)
  <1> SUFFICES Spec => [][A]_vars
    BY DEF StartedWired, Wiring
  <1>1. WInv /\ [Next]_vars => [A]_vars
    <2> SUFFICES ASSUME WInv, [Next]_vars,
                        NEW p \in Ids, child[p] = "none", child'[p] = "alive", NEW n \in 0 .. 2
                 PROVE  std'[p][n] = Wiring(p, n)
      OBVIOUS
    <2>1. child \in [Ids -> {"none", "alive", "zombie", "reaped"}] /\ std \in [Ids -> [0 .. 2 -> Ends \cup {Free}]]
      BY DEF WInv, ChildrenOK
    <2>2. Spawn(p)
      <3>1. child'[p] # child[p] /\ child' # child
        OBVIOUS
      <3>2. UNCHANGED children => child' = child
        BY DEF children
      <3>3. PICK q \in Ids : Spawn(q) \/ Reap(q) \/ ChildEnds(q)
        BY <3>1, <3>2 DEF Next, Progress, Nap, vars, Run, EndFeed, WriteFails, Pipe, PipeFails,
             SpawnFails, SpawnImpossible, CloseGiven, ReadEnds, ScanEnds, FreeEnds, Clean,
             ChildCloses, LoseController, MainExits
      <3>4. q = p
        BY <2>1, <3>1, <3>3 DEF Spawn, Reap, ChildEnds
      <3>5. QED
        BY <2>1, <3>3, <3>4 DEF Reap, ChildEnds
    <2>3. PICK t \in Inherited(p) : std' = [std EXCEPT ![p] = [k \in 0 .. 2 |-> t[k]]]
      BY <2>2 DEF Spawn
    <2>4. t[n] = Wiring(p, n)
      BY <2>2, <2>3, Wired DEF Spawn, Step
    <2>5. QED
      BY <2>1, <2>3, <2>4
  <1> HIDE DEF A
  <1>2. QED
    BY InitiallyWired, WiredInductive, <1>1, PTL DEF Spec

(* Datalackey stops in the middle only for want of descriptors, or because *)
(* one of a child's ends has the number of a standard descriptor that it   *)
(* has lost: otherwise there is always a table that the child can have.    *)
THEOREM FailuresHaveCauses == Spec => []FailureHasCause
  <1> DEFINE Inv == WInv /\ FailureHasCause
  <1>1. Init => Inv
    BY InitiallyWired DEF Init, FailureHasCause
  <1>2. Inv /\ [Next]_vars => Inv'
    <2> SUFFICES ASSUME WInv, FailureHasCause, [Next]_vars PROVE FailureHasCause'
      BY WiredInductive
    <2>1. CASE UNCHANGED vars
      BY <2>1 DEF vars, descriptors, FailureHasCause, NoRoom, StandardTaken, TwoAreFree, FreeFds
    <2>2. CASE \E p \in Ids : PipeFails(p)
      BY <2>2 DEF PipeFails, descriptors, FailureHasCause, NoRoom, TwoAreFree, FreeFds
    <2>3. CASE \E p \in Ids : SpawnImpossible(p)
      <3>1. PICK p \in Ids : SpawnImpossible(p)
        BY <2>3
      <3>2. StandardTaken(p)
        BY <3>1, Wired DEF SpawnImpossible
      <3>3. StandardTaken(p)'
        BY <3>1, <3>2 DEF SpawnImpossible, StandardTaken, descriptors
      <3>4. QED
        BY <3>3 DEF FailureHasCause
    <2>4. CASE /\ ~UNCHANGED vars
               /\ ~\E p \in Ids : PipeFails(p) \/ SpawnImpossible(p)
      <3>1. main' # "failed"
        BY <2>4 DEF Next, Progress, Nap, Run, CommandsCome, EndFeed, WriteFails, Pipe, Step,
             Spawn, SpawnFails, CloseGiven, ReadEnds, Reap, ScanEnds, FreeEnds, Clean,
             ChildCloses, ChildEnds, LoseController, MainExits
      <3>2. QED
        BY <3>1 DEF FailureHasCause
    <2>5. QED
      BY <2>1, <2>2, <2>3, <2>4
  <1>3. QED
    BY <1>1, <1>2, PTL DEF Spec

(* A descriptor's number is used again as soon as any thread closed it,    *)
(* and still no object holds one that is not its own.                      *)
THEOREM NobodyElsesDescriptor == Spec => []OwnersAgree
  <1>1. IInv => OwnersAgree
    BY DEF IInv
  <1>2. QED
    BY Initially, Inductive, <1>1, PTL DEF Spec

(* Once a runner is over its process holds no descriptor of datalackey's,  *)
(* wherever it failed and whoever closed ends in the meantime.             *)
THEOREM NothingLeaks == Spec => []NoLeak
  <1>1. IInv => NoLeak
    <2> SUFFICES ASSUME IInv, NEW p \in Ids, place[p] \in {"over", "cleaned"},
                        NEW n \in Fds, table[n] # Free, table[n][1] = p
                 PROVE  FALSE
      BY DEF NoLeak
    <2> DEFINE e == table[n]
    <2>1. e \in Ends
      BY DEF IInv, TypesInv
    <2>2. n # 2
      BY ConstantsAssumption DEF IInv, ErrorsInv, Errors
    <2>3. fd[e] = n
      BY <2>1, <2>2 DEF IInv, OwnersAgree
    <2>4. fd[e] = Closed
      <3>1. \A pipe \in {"in", "out", "err"} : Unopened(p, pipe)
        BY DEF IInv, PlacesInv
      <3>2. e = <<p, e[2], e[3]>> /\ e[2] \in {"in", "out", "err"} /\ e[3] \in {"r", "w"}
        BY <2>1, EndOf
      <3>3. QED
        BY <3>1, <3>2 DEF Unopened
    <2>5. QED
      BY <2>3, <2>4 DEF Closed, Fds
  <1>2. QED
    BY Initially, Inductive, <1>1, PTL DEF Spec
==============================================================================
