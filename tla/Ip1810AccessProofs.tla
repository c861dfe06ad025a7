------------------------- MODULE Ip1810AccessProofs -------------------------
(***************************************************************************)
(* Proofs about register access to the IP1810, for every set of threads,   *)
(* pages, registers and values.  First what the spinlock gives even when   *)
(* ip1829_phy_reg_read sends IP2Page without it; then, when nobody does,   *)
(* that me_mdio_read and me_mdio_write are atomic.                         *)
(***************************************************************************)
EXTENDS Ip1810Access, TLAPS

(* The phases in which a locked access holds the spinlock. *)
Inside(t) ==
  /\ io[t].at \in {"page", "pageBits", "access", "accessBits", "unlock"}
  /\ io[t].op # "page"

Shifting(t) == io[t].at \in {"pageBits", "accessBits"}

(* The lock is held exactly by the thread inside an access, the threads on *)
(* the bus are those between the first and the last bit of a frame, and a  *)
(* bare IP2Page never reaches the phases that are under the lock.          *)
LockInv ==
  /\ \A t \in Threads : Inside(t) <=> lock = t
  /\ \A t \in Threads : t \in bus <=> Shifting(t)
  /\ \A t \in Threads :
       io[t].at \in {"lock", "access", "accessBits", "unlock"} => io[t].op # "page"

LEMMA LockInvInit == AccessInit => LockInv
BY AccessAssumption DEF AccessInit, LockInv, Inside, Shifting, NoAccess

LEMMA NotIdle ==
  ASSUME NEW t \in Threads, TypeOK, io[t].at \in Phases
  PROVE  io[t] \in Accesses
BY DEF TypeOK, Accesses, NoAccess, Phases

(* A change of phase leaves everything else of every call alone. *)
LEMMA GotoEffect ==
  ASSUME NEW t \in Threads, TypeOK, io[t].at \in Phases, NEW ph, Goto(t, ph)
  PROVE  /\ io[t] \in Accesses
         /\ io'[t] = [io[t] EXCEPT !.at = ph]
         /\ io'[t].at = ph /\ io'[t].op = io[t].op /\ io'[t].page = io[t].page
         /\ io'[t].reg = io[t].reg /\ io'[t].val = io[t].val
         /\ \A u \in Threads : u # t => io'[u] = io[u]
<1>1. io[t] \in Accesses
  BY NotIdle
<1>2. io'[t] = [io[t] EXCEPT !.at = ph]
  BY <1>1 DEF Goto, TypeOK
<1>3. \A u \in Threads : u # t => io'[u] = io[u]
  BY DEF Goto, TypeOK
<1>4. QED
  BY <1>1, <1>2, <1>3 DEF Accesses

LEMMA TypeInit == AccessInit => TypeOK
BY AccessAssumption DEF AccessInit, TypeOK, Addrs

LEMMA TypeStep == TypeOK /\ [Next]_accessVars => TypeOK'
<1> SUFFICES ASSUME TypeOK, [Next]_accessVars PROVE TypeOK'
  OBVIOUS
<1> USE DEF TypeOK
<1>1. ASSUME NEW t \in Threads, CallSome(t) PROVE TypeOK'
  BY <1>1 DEF CallSome, Call, Accesses, Phases
<1>2. ASSUME NEW t \in Threads, Acquire(t) PROVE TypeOK'
  BY <1>2, NotIdle DEF Acquire, At, Goto, Accesses, Phases
<1>3. ASSUME NEW t \in Threads, StartPage(t) PROVE TypeOK'
  <2>1. Overtaken(t) \subseteq Threads
    BY DEF Overtaken
  <2>2. stale' \subseteq Threads
    BY <1>3, <2>1 DEF StartPage
  <2>3. QED
    BY <1>3, <2>2, NotIdle DEF StartPage, At, Goto, Accesses, Phases
<1>3b. ASSUME NEW t \in Threads, WriteBack(t) PROVE TypeOK'
  BY <1>3b DEF WriteBack
<1>4. ASSUME NEW t \in Threads, EndPage(t) PROVE TypeOK'
  <2>1. mem' \in [Addrs -> Values]
    BY <1>4, AccessAssumption DEF EndPage, Strike, Addrs
  <2>2. page' \in Pages
    BY <1>4, NotIdle DEF EndPage, At, Accesses, Phases
  <2>3. io' \in [Threads -> Accesses \union {NoAccess}]
    BY <1>4, NotIdle DEF EndPage, At, Goto, Accesses, Phases
  <2>4. QED
    BY <1>4, <2>1, <2>2, <2>3 DEF EndPage, LeaveBus
<1>5. ASSUME NEW t \in Threads, StartAccess(t) PROVE TypeOK'
  BY <1>5, NotIdle DEF StartAccess, At, Goto, Accesses, Phases
<1>6. ASSUME NEW t \in Threads, EndWrite(t) PROVE TypeOK'
  BY <1>6, NotIdle, AccessAssumption
     DEF EndWrite, Strike, At, Goto, LeaveBus, Accesses, Phases, Addrs
<1>7. ASSUME NEW t \in Threads, EndRead(t) PROVE TypeOK'
  <2>1. io[t] \in Accesses
    BY <1>7, NotIdle DEF EndRead, At, Phases
  <2>2. mem[<<page, io[t].reg>>] \in Values
    BY <2>1 DEF Accesses, Addrs
  <2>3. PICK v \in Values :
          io' = [io EXCEPT ![t].at = "unlock", ![t].val = v]
    BY <1>7, <2>2, AccessAssumption DEF EndRead
  <2>4. io' \in [Threads -> Accesses \union {NoAccess}]
    BY <2>1, <2>3 DEF Accesses, Phases
  <2>5. QED
    BY <1>7, <2>4 DEF EndRead, LeaveBus
<1>8. ASSUME NEW t \in Threads, Release(t) PROVE TypeOK'
  BY <1>8, NotIdle DEF Release, At, Goto, Accesses, Phases
<1>9. ASSUME NEW t \in Threads, Return(t) PROVE TypeOK'
  BY <1>9 DEF Return
<1>10. CASE UNCHANGED accessVars
  BY <1>10 DEF accessVars
<1>11. QED
  BY <1>1, <1>2, <1>3, <1>3b, <1>4, <1>5, <1>6, <1>7, <1>8, <1>9, <1>10
     DEF Next, Transfer

(* Every variable keeps its type. *)
THEOREM TypeCorrect == Spec => []TypeOK
BY TypeInit, TypeStep, PTL DEF Spec
-----------------------------------------------------------------------------
LEMMA LockInvStep == TypeOK /\ LockInv /\ [Next]_accessVars => LockInv'
<1> SUFFICES ASSUME TypeOK, LockInv, [Next]_accessVars PROVE LockInv'
  OBVIOUS
<1> USE AccessAssumption DEF TypeOK, LockInv, Inside, Shifting, At
<1>1. ASSUME NEW t \in Threads, CallSome(t) PROVE LockInv'
  BY <1>1 DEF CallSome, Call
<1>2. ASSUME NEW t \in Threads, Acquire(t) PROVE LockInv'
  BY <1>2, NotIdle DEF Acquire, Goto, Accesses, Phases
<1>3. ASSUME NEW t \in Threads, StartPage(t) PROVE LockInv'
  BY <1>3, NotIdle DEF StartPage, Goto, Accesses, Phases
<1>3b. ASSUME NEW t \in Threads, WriteBack(t) PROVE LockInv'
  BY <1>3b DEF WriteBack
<1>4. ASSUME NEW t \in Threads, EndPage(t) PROVE LockInv'
  BY <1>4, NotIdle DEF EndPage, Goto, LeaveBus, Accesses, Phases
<1>5. ASSUME NEW t \in Threads, StartAccess(t) PROVE LockInv'
  BY <1>5, NotIdle DEF StartAccess, Goto, Accesses, Phases
<1>6. ASSUME NEW t \in Threads, EndWrite(t) PROVE LockInv'
  BY <1>6, NotIdle DEF EndWrite, Goto, LeaveBus, Accesses, Phases
<1>7. ASSUME NEW t \in Threads, EndRead(t) PROVE LockInv'
  <2>1. io[t] \in Accesses
    BY <1>7, NotIdle DEF EndRead, Phases
  <2>2. PICK v : io' = [io EXCEPT ![t].at = "unlock", ![t].val = v]
    BY <1>7 DEF EndRead
  <2>3. /\ io'[t].at = "unlock"
        /\ io'[t].op = io[t].op
        /\ \A u \in Threads : u # t => io'[u] = io[u]
    BY <2>1, <2>2 DEF Accesses
  <2>4. QED
    BY <1>7, <2>3 DEF EndRead, LeaveBus
<1>8. ASSUME NEW t \in Threads, Release(t) PROVE LockInv'
  BY <1>8, NotIdle DEF Release, Goto, Accesses, Phases
<1>9. ASSUME NEW t \in Threads, Return(t) PROVE LockInv'
  BY <1>9 DEF Return, NoAccess
<1>10. CASE UNCHANGED accessVars
  BY <1>10 DEF accessVars
<1>11. QED
  BY <1>1, <1>2, <1>3, <1>3b, <1>4, <1>5, <1>6, <1>7, <1>8, <1>9, <1>10
     DEF Next, Transfer

(* The spinlock keeps locked frames apart, even while other threads send   *)
(* IP2Page without it.                                                     *)
THEOREM LockedFrames == Spec => []LockedFramesDisjoint
<1>1. TypeOK /\ LockInv => LockedFramesDisjoint
  BY DEF TypeOK, LockInv, LockedFramesDisjoint, LockedFrame, At, Inside, Shifting
<1>2. QED
  BY <1>1, LockInvInit, LockInvStep, TypeCorrect, PTL DEF Spec

-----------------------------------------------------------------------------
(* Without a bare IP2Page no two frames overlap, no direction is lost, and *)
(* a thread between its two frames finds the page it chose, if its frames  *)
(* are clocked at all.                                                     *)
PageInv ==
  /\ clash = {} /\ stale = {}
  /\ \A t \in Threads : io[t] # NoAccess => io[t].op # "page"
  /\ RightPage

NoneBare == BarePagers = {}

LEMMA PageInvInit == AccessInit => PageInv
BY DEF AccessInit, PageInv, RightPage, NoAccess, At

(* A thread about to send a frame of a locked access finds the bus free. *)
LEMMA BusFree ==
  ASSUME TypeOK, LockInv, PageInv, NEW t \in Threads,
         io[t].at \in {"page", "access"}
  PROVE  bus = {}
<1>1. io[t].op # "page"
  BY DEF PageInv, NoAccess
<1>2. lock = t
  BY <1>1 DEF LockInv, Inside
<1>3. ASSUME NEW u \in bus PROVE FALSE
  <2>1. u \in Threads /\ Shifting(u)
    BY DEF TypeOK, LockInv
  <2>2. io[u].op # "page"
    BY <2>1 DEF PageInv, NoAccess, Shifting
  <2>3. u = lock
    BY <2>1, <2>2 DEF LockInv, Inside, Shifting
  <2>4. QED
    BY <1>2, <2>1, <2>3 DEF Shifting
<1>4. QED
  BY <1>3

(* What a change of phase must respect to keep PageInv. *)
LEMMA PageInvGoto ==
  ASSUME TypeOK, PageInv, NEW t \in Threads, NEW ph,
         io[t].at \in Phases, Goto(t, ph), clash' = {}, stale' = {},
         ph \in {"access", "accessBits"} /\ mdcOut' => page' = io[t].page,
         \A u \in Threads : u # t /\ io[u].at \in {"access", "accessBits"}
                              => page' = page /\ mdcOut' = mdcOut
  PROVE  PageInv'
<1>1. /\ io'[t].at = ph /\ io'[t].op = io[t].op /\ io'[t].page = io[t].page
      /\ \A u \in Threads : u # t => io'[u] = io[u]
  BY GotoEffect
<1>2. io[t].op # "page"
  BY DEF PageInv, Phases, NoAccess
<1>3. \A u \in Threads : io'[u] # NoAccess => io'[u].op # "page"
  BY <1>1, <1>2 DEF PageInv
<1>4. RightPage'
  <2> SUFFICES ASSUME NEW u \in Threads, io'[u].at \in {"access", "accessBits"},
                      mdcOut'
               PROVE  page' = io'[u].page
    BY DEF RightPage, At
  <2>1. CASE u = t
    BY <1>1, <2>1
  <2>2. CASE u # t
    BY <1>1, <2>2 DEF PageInv, RightPage, At
  <2>3. QED
    BY <2>1, <2>2
<1>5. QED
  BY <1>3, <1>4 DEF PageInv

LEMMA PageInvStep ==
  ASSUME NoneBare, TypeOK, LockInv, PageInv, [Next]_accessVars
  PROVE  PageInv'
<1> USE DEF At
<1>a. clash = {} /\ stale = {}
  BY DEF PageInv
<1>1. ASSUME NEW t \in Threads, CallSome(t) PROVE PageInv'
  BY <1>1 DEF CallSome, Call, NoneBare, TypeOK, PageInv, RightPage
<1>2. ASSUME NEW t \in Threads, Acquire(t) PROVE PageInv'
  BY <1>a, <1>2, PageInvGoto DEF Acquire, Phases
<1>3. ASSUME NEW t \in Threads, StartPage(t) PROVE PageInv'
  <2>1. bus = {}
    BY <1>3, BusFree DEF StartPage
  <2>2. stale' = {}
    BY <1>a, <1>3, <2>1 DEF StartPage, Overtaken
  <2>3. lock = t
    BY <1>3 DEF StartPage, LockInv, Inside, PageInv, NoAccess
  <2>4. \A u \in Threads : u # t => ~(io[u].at \in {"access", "accessBits"})
    BY <2>3 DEF LockInv, Inside
  <2>5. QED
    BY <1>a, <1>3, <2>1, <2>2, <2>4, PageInvGoto DEF StartPage, Phases
<1>3b. ASSUME NEW t \in Threads, WriteBack(t) PROVE PageInv'
  BY <1>a, <1>3b DEF WriteBack
<1>4. ASSUME NEW t \in Threads, EndPage(t) PROVE PageInv'
  <2>1. io[t].op # "page"
    BY <1>4 DEF EndPage, PageInv, NoAccess
  <2>2. Goto(t, "access") /\ (mdcOut => page' = io[t].page)
    BY <1>a, <1>4, <2>1 DEF EndPage, Delivered
  <2>3. lock = t
    BY <1>4, <2>1 DEF EndPage, LockInv, Inside
  <2>4. \A u \in Threads : u # t => ~(io[u].at \in {"access", "accessBits"})
    BY <2>3 DEF LockInv, Inside
  <2>5. QED
    BY <1>a, <1>4, <2>2, <2>4, PageInvGoto DEF EndPage, LeaveBus, Phases
<1>5. ASSUME NEW t \in Threads, StartAccess(t) PROVE PageInv'
  <2>1. bus = {}
    BY <1>5, BusFree DEF StartAccess
  <2>2. mdcOut => page = io[t].page
    BY <1>a, <1>5 DEF StartAccess, PageInv, RightPage
  <2>3. QED
    BY <1>a, <1>5, <2>1, <2>2, PageInvGoto DEF StartAccess, Phases
<1>6. ASSUME NEW t \in Threads, EndWrite(t) PROVE PageInv'
  BY <1>a, <1>6, PageInvGoto DEF EndWrite, LeaveBus, Phases
<1>7. ASSUME NEW t \in Threads, EndRead(t) PROVE PageInv'
  <2>1. io[t] \in Accesses
    BY <1>7, NotIdle DEF EndRead, Phases
  <2>2. PICK v : io' = [io EXCEPT ![t].at = "unlock", ![t].val = v]
    BY <1>7 DEF EndRead
  <2>3. /\ io'[t].at = "unlock"
        /\ io'[t].op = io[t].op
        /\ \A u \in Threads : u # t => io'[u] = io[u]
    BY <2>1, <2>2 DEF Accesses, TypeOK
  <2>4. io[t].op # "page"
    BY <1>7 DEF EndRead
  <2>5. QED
    BY <1>7, <2>3, <2>4 DEF EndRead, LeaveBus, PageInv, RightPage
<1>8. ASSUME NEW t \in Threads, Release(t) PROVE PageInv'
  BY <1>a, <1>8, PageInvGoto DEF Release, Phases
<1>9. ASSUME NEW t \in Threads, Return(t) PROVE PageInv'
  BY <1>9 DEF Return, NoAccess, TypeOK, PageInv, RightPage
<1>10. CASE UNCHANGED accessVars
  BY <1>10 DEF accessVars, PageInv, RightPage
<1>11. QED
  BY <1>1, <1>2, <1>3, <1>3b, <1>4, <1>5, <1>6, <1>7, <1>8, <1>9, <1>10
     DEF Next, Transfer

(* As long as nobody sends IP2Page without the lock, a thread between its  *)
(* two frames finds the chip on the page it selected, from the first read  *)
(* on, which makes MDC an output.                                          *)
THEOREM PagesKept == ASSUME NoneBare PROVE Spec => []RightPage
<1>1. AccessInit => PageInv
  BY PageInvInit
<1>2. TypeOK /\ LockInv /\ PageInv /\ [Next]_accessVars => PageInv'
  BY PageInvStep
<1>3. PageInv => RightPage
  BY DEF PageInv
<1>4. QED
  BY <1>1, <1>2, <1>3, LockInvInit, LockInvStep, TypeCorrect, PTL DEF Spec

(* As long as nobody sends IP2Page without the lock, a me_mdio_write that  *)
(* finds MDC an output stores its value in the register and page it named. *)
THEOREM Stored == ASSUME NoneBare PROVE Spec => WritesKept
<1> DEFINE Kept(t) ==
      /\ At(t, "accessBits") /\ io[t].op = "write" /\ mdcOut
      /\ ~At(t, "accessBits")'
      => mem'[<<io[t].page, io[t].reg>>] = io[t].val
<1>1. TypeOK /\ LockInv /\ PageInv /\ [Next]_accessVars
        => [\A t \in Threads : Kept(t)]_accessVars
  <2> SUFFICES ASSUME TypeOK, LockInv, PageInv, Next, NEW t \in Threads,
                      At(t, "accessBits"), io[t].op = "write", mdcOut,
                      ~At(t, "accessBits")'
               PROVE  mem'[<<io[t].page, io[t].reg>>] = io[t].val
    OBVIOUS
  <2>1. PICK u \in Threads : CallSome(u) \/ Transfer(u) \/ Return(u)
    BY DEF Next
  <2>2. io[t] \in Accesses /\ <<io[t].page, io[t].reg>> \in Addrs
    BY NotIdle DEF At, Phases, Accesses, Addrs
  <2>3. u = t
    BY <2>1 DEF CallSome, Call, Transfer, Acquire, StartPage, WriteBack, EndPage,
                StartAccess, EndWrite, EndRead, Release, Return, At, Goto, TypeOK
  <2>4. EndWrite(t)
    BY <2>1, <2>3 DEF CallSome, Call, Transfer, Acquire, StartPage, WriteBack,
                      EndPage, StartAccess, EndWrite, EndRead, Release, Return,
                      At, PageInv
  <2>5. page = io[t].page /\ clash = {}
    BY DEF PageInv, RightPage
  <2>6. mem' = [mem EXCEPT ![<<io[t].page, io[t].reg>>] = io[t].val]
    BY <2>4, <2>5 DEF EndWrite, Delivered
  <2>7. QED
    BY <2>2, <2>6 DEF TypeOK
<1>2. TypeOK /\ LockInv /\ PageInv /\ [Next]_accessVars => PageInv'
  BY PageInvStep
<1>3. QED
  BY <1>1, <1>2, PageInvInit, LockInvInit, LockInvStep, TypeCorrect, PTL
     DEF Spec, WritesKept

-----------------------------------------------------------------------------
(* The abstract calls a concrete state stands for. *)
Called == [t \in Threads |-> CallOf(io[t])]

(* A change of phase of t replaces t's abstract call by the one of its new  *)
(* record, and no other.                                                    *)
LEMMA CalledGoto ==
  ASSUME NEW t \in Threads, TypeOK, NEW a,
         io'[t] = a, \A u \in Threads : u # t => io'[u] = io[u]
  PROVE  Called' = [Called EXCEPT ![t] = CallOf(a)]
BY DEF Called, CallOf

LEMMA StutterGoto ==
  ASSUME NEW t \in Threads, TypeOK, io[t].at \in Phases, NEW ph, Goto(t, ph),
         \/ io[t].at \notin {"unlock", "done"} /\ ph \in {"page", "pageBits", "access", "accessBits"}
         \/ io[t].at = "unlock" /\ ph = "done"
  PROVE  Called' = Called
<1>1. io'[t] = [io[t] EXCEPT !.at = ph] /\ io[t] \in Accesses
      /\ \A u \in Threads : u # t => io'[u] = io[u]
  BY GotoEffect
<1>2. CallOf([io[t] EXCEPT !.at = ph]) = CallOf(io[t])
  BY <1>1 DEF CallOf, Accesses, Phases
<1>3. Called' = [Called EXCEPT ![t] = CallOf(io[t])]
  BY <1>1, <1>2, CalledGoto
<1>4. QED
  BY <1>3 DEF Called

LEMMA ExceptTwice ==
  ASSUME NEW f, f = [x \in Threads |-> f[x]], NEW t \in Threads, NEW s, NEW v
  PROVE  [f EXCEPT ![t].stage = s, ![t].val = v]
           = [f EXCEPT ![t] = [f[t] EXCEPT !.stage = s, !.val = v]]
OBVIOUS

Quiet == NoneBare /\ MdcAtBoot = TRUE

(* Nobody writes back a stale direction: once an output, MDC stays one.     *)
LEMMA MdcInv ==
  ASSUME PageInv, mdcOut, [Next]_accessVars PROVE mdcOut'
BY DEF PageInv, Next, CallSome, Call, Transfer, Acquire, StartPage, WriteBack,
       EndPage, StartAccess, EndWrite, EndRead, Release, Return, accessVars

(* A locked access whose frames arrive is one abstract step, at the end of  *)
(* its second frame; every other step but the call and the return stutters. *)
LEMMA StepRefines ==
  ASSUME Quiet, TypeOK, LockInv, PageInv, mdcOut, [Next]_accessVars
  PROVE  [Device!Next]_(Device!vars)
<1> USE DEF At
<1>a. mdcOut /\ clash = {} /\ stale = {}
  BY DEF PageInv
<1>s. ASSUME Called' = Called, mem' = mem PROVE [Device!Next]_(Device!vars)
  BY <1>s DEF Device!vars, Called
<1>1. ASSUME NEW t \in Threads, CallSome(t) PROVE Device!Invoke(t)
  <2>1. PICK op \in {"read", "write"}, p \in Pages, r \in Regs, v \in Values :
          Call(t, op, p, r, v)
    BY <1>1 DEF CallSome, Quiet, NoneBare
  <2> DEFINE a == [at |-> "lock", op |-> op, page |-> p, reg |-> r, val |-> v]
  <2>2. io'[t] = a /\ \A u \in Threads : u # t => io'[u] = io[u]
    BY <2>1 DEF Call, TypeOK
  <2>3. CallOf(a) = [stage |-> "called", op |-> op, addr |-> <<p, r>>, val |-> v]
    BY DEF CallOf
  <2>4. Called' = [Called EXCEPT ![t] = CallOf(a)]
    BY <2>2, CalledGoto
  <2>5. Called[t] = Device!NoCall
    BY <2>1 DEF Called, CallOf, Call, Device!NoCall
  <2>6. <<p, r>> \in Addrs /\ UNCHANGED mem
    BY <2>1 DEF Addrs, Call
  <2>7. QED
    BY <2>3, <2>4, <2>5, <2>6 DEF Device!Invoke, Called
<1>2. ASSUME NEW t \in Threads, Acquire(t) PROVE [Device!Next]_(Device!vars)
  BY <1>2, <1>s, StutterGoto DEF Acquire, Phases
<1>3. ASSUME NEW t \in Threads, StartPage(t) PROVE [Device!Next]_(Device!vars)
  BY <1>3, <1>s, StutterGoto DEF StartPage, Phases
<1>3b. ASSUME NEW t \in Threads, WriteBack(t) PROVE [Device!Next]_(Device!vars)
  BY <1>a, <1>3b DEF WriteBack
<1>4. ASSUME NEW t \in Threads, EndPage(t) PROVE [Device!Next]_(Device!vars)
  <2>1. io[t].op # "page"
    BY <1>4 DEF EndPage, PageInv, NoAccess
  <2>2. mem' = mem
    BY <1>a, <1>4 DEF EndPage
  <2>3. QED
    BY <1>4, <1>s, <2>1, <2>2, StutterGoto DEF EndPage, Phases
<1>5. ASSUME NEW t \in Threads, StartAccess(t) PROVE [Device!Next]_(Device!vars)
  BY <1>5, <1>s, StutterGoto DEF StartAccess, Phases
<1>6. ASSUME NEW t \in Threads, EndWrite(t) PROVE Device!ApplyWrite(t)
  <2>1. /\ io[t] \in Accesses /\ io'[t] = [io[t] EXCEPT !.at = "unlock"]
        /\ \A u \in Threads : u # t => io'[u] = io[u]
    BY <1>6, GotoEffect DEF EndWrite, Phases
  <2>2. page = io[t].page
    BY <1>a, <1>6 DEF EndWrite, PageInv, RightPage
  <2>3. mem' = [mem EXCEPT ![<<io[t].page, io[t].reg>>] = io[t].val]
    BY <1>a, <1>6, <2>2 DEF EndWrite, Delivered
  <2>4. Called[t] = [stage |-> "called", op |-> "write",
                     addr |-> <<io[t].page, io[t].reg>>, val |-> io[t].val]
    BY <1>6 DEF EndWrite, Called, CallOf
  <2>5. CallOf([io[t] EXCEPT !.at = "unlock"])
          = [stage |-> "applied", op |-> io[t].op,
             addr |-> <<io[t].page, io[t].reg>>, val |-> io[t].val]
    BY <2>1 DEF CallOf, Accesses
  <2>6. Called' = [Called EXCEPT ![t].stage = "applied"]
    <3>1. Called' = [Called EXCEPT ![t] = CallOf([io[t] EXCEPT !.at = "unlock"])]
      BY <2>1, CalledGoto
    <3>2. [Called[t] EXCEPT !.stage = "applied"]
             = CallOf([io[t] EXCEPT !.at = "unlock"])
      BY <1>6, <2>4, <2>5 DEF EndWrite
    <3>3. QED
      BY <3>1, <3>2 DEF Called
  <2>7. /\ Called[t].stage = "called" /\ Called[t].op = "write"
        /\ mem' = [mem EXCEPT ![Called[t].addr] = Called[t].val]
    BY <2>3, <2>4
  <2>8. QED
    BY <2>6, <2>7 DEF Device!ApplyWrite, Called
<1>7. ASSUME NEW t \in Threads, EndRead(t) PROVE Device!ApplyRead(t)
  <2>1. io[t] \in Accesses
    BY <1>7, NotIdle DEF EndRead, Phases
  <2>2. page = io[t].page
    BY <1>a, <1>7 DEF EndRead, PageInv, RightPage
  <2> DEFINE v == mem[<<io[t].page, io[t].reg>>]
             a == [io[t] EXCEPT !.at = "unlock", !.val = v]
  <2>3. io' = [io EXCEPT ![t].at = "unlock", ![t].val = v]
    BY <1>a, <1>7, <2>2 DEF EndRead, Delivered
  <2>4. io'[t] = a /\ \A u \in Threads : u # t => io'[u] = io[u]
    BY <2>3 DEF TypeOK
  <2>5. Called[t] = [stage |-> "called", op |-> "read",
                     addr |-> <<io[t].page, io[t].reg>>, val |-> io[t].val]
    BY <1>7 DEF EndRead, Called, CallOf
  <2>6. CallOf(a) = [stage |-> "applied", op |-> "read",
                     addr |-> <<io[t].page, io[t].reg>>, val |-> v]
    BY <1>7, <2>1 DEF CallOf, Accesses, EndRead
  <2>7. Called' = [Called EXCEPT ![t].stage = "applied", ![t].val = v]
    <3>1. Called' = [Called EXCEPT ![t] = CallOf(a)]
      BY <2>4, CalledGoto
    <3>2. [Called[t] EXCEPT !.stage = "applied", !.val = v] = CallOf(a)
      <4> DEFINE d == [Called[t] EXCEPT !.stage = "applied"]
      <4>1. d = [stage |-> "applied", op |-> "read",
                 addr |-> <<io[t].page, io[t].reg>>, val |-> io[t].val]
        BY <2>5
      <4>2. [d EXCEPT !.val = v]
              = [stage |-> "applied", op |-> "read",
                 addr |-> <<io[t].page, io[t].reg>>, val |-> v]
        <5> HIDE DEF d, v
        <5>1. QED
          BY <4>1
      <4>3. QED
        BY <4>2, <2>6
    <3>3. Called = [u \in Threads |-> Called[u]]
      BY DEF Called
    <3>4. [Called EXCEPT ![t].stage = "applied", ![t].val = v]
             = [Called EXCEPT ![t] = [Called[t] EXCEPT !.stage = "applied", !.val = v]]
      <4> HIDE DEF v
      <4>1. QED
        BY <3>3, ExceptTwice
    <3>5. QED
      BY <3>1, <3>2, <3>4
  <2>8. /\ Called[t].stage = "called" /\ Called[t].op = "read"
        /\ mem[Called[t].addr] = v
        /\ UNCHANGED mem
    BY <1>7, <2>5 DEF EndRead
  <2>9. Called' = [Called EXCEPT ![t].stage = "applied",
                                 ![t].val = mem[Called[t].addr]]
    BY <2>7, <2>8
  <2>10. QED
    BY <2>8, <2>9 DEF Device!ApplyRead, Called
<1>8. ASSUME NEW t \in Threads, Release(t) PROVE [Device!Next]_(Device!vars)
  BY <1>8, <1>s, StutterGoto DEF Release, Phases
<1>9. ASSUME NEW t \in Threads, Return(t) PROVE Device!Return(t)
  <2>1. io'[t] = NoAccess /\ \A u \in Threads : u # t => io'[u] = io[u]
    BY <1>9 DEF Return, TypeOK
  <2>2. CallOf(NoAccess) = Device!NoCall
    BY DEF CallOf, NoAccess, Device!NoCall
  <2>3. Called' = [Called EXCEPT ![t] = Device!NoCall]
    BY <2>1, <2>2, CalledGoto
  <2>4. Called[t].stage = "applied"
    BY <1>9 DEF Return, Called, CallOf
  <2>5. QED
    BY <1>9, <2>3, <2>4 DEF Device!Return, Called, Return
<1>10. CASE UNCHANGED accessVars
  BY <1>10, <1>s DEF accessVars, Called
<1>11. QED
  BY <1>1, <1>2, <1>3, <1>3b, <1>4, <1>5, <1>6, <1>7, <1>8, <1>9, <1>10
     DEF Next, Transfer, Device!Next

(* As long as nobody sends IP2Page without the lock, the paged two-frame    *)
(* accesses of smi.c are atomic reads and writes of one register.           *)
THEOREM Atomicity == ASSUME Quiet PROVE Spec => AtomicRegisters
<1>1. AccessInit => Device!Init
  BY DEF AccessInit, Device!Init, CallOf, NoAccess, Device!NoCall
<1>2. AccessInit => PageInv /\ mdcOut
  BY PageInvInit DEF AccessInit, Quiet
<1>3. TypeOK /\ LockInv /\ PageInv /\ mdcOut /\ [Next]_accessVars
        => PageInv' /\ mdcOut'
  BY PageInvStep, MdcInv DEF Quiet
<1>4. TypeOK /\ LockInv /\ PageInv /\ mdcOut /\ [Next]_accessVars
        => [Device!Next]_(Device!vars)
  BY StepRefines
<1>5. QED
  BY <1>1, <1>2, <1>3, <1>4, LockInvInit, LockInvStep, TypeCorrect, PTL
     DEF Spec, AtomicRegisters, Device!Spec
=============================================================================
