----------------------------- MODULE PvsObjects -----------------------------
(***************************************************************************)
(* The module pvs: C++ objects that scripts hold through userdata (LuaOO,  *)
(* LuaObjectBase), and the one class of them, PVS.  An object is deleted   *)
(* by the hook that polls, once it is marked; a userdata is a pointer to   *)
(* an object, and is good while that address is in the set of allocated    *)
(* ones.  Addresses are taken again.                                       *)
(*                                                                         *)
(* Left out: callbacks (runCallback, getAsObject, getFromObject), which    *)
(* PVS does not use, and the references of m_userTable.                    *)
(***************************************************************************)
EXTENDS FiniteSets, Naturals

CONSTANTS
  Cells,       \* addresses
  Wraps,       \* userdata
  NoCell

ASSUME PvsAssumption == NoCell \notin Cells

VARIABLES
  allocated,   \* m_allocated
  thing,       \* address -> the object at it
  wrap,        \* userdata -> the pointer in it, NoCell if it does not exist
  owner,       \* the userdata whose object is still the one at their address
  typed,       \* PVS is in m_registered
  deleteAsked,       \* a script called delete
  reachedOther       \* a call reached another object than its userdata was made for

pvsVars == <<allocated, thing, wrap, owner, typed, deleteAsked, reachedOther>>

NewThing == [refs |-> 1, enableGC |-> TRUE, marked |-> FALSE]

PvsInit ==
  /\ allocated = {} /\ typed = TRUE
  /\ thing = [c \in Cells |-> NewThing]
  /\ wrap = [w \in Wraps |-> NoCell]
  /\ owner = {} /\ deleteAsked = FALSE /\ reachedOther = FALSE

(* checkValidity; there is one type and one Lua state.                     *)
ValidWrap(w) == typed /\ wrap[w] \in allocated /\ ~thing[wrap[w]].marked

(* GetPVSForCluster: the constructor registers the object, pushObject      *)
(* makes the userdata.                                                     *)
NewPvs(c, w) ==
  /\ typed /\ c \notin allocated /\ wrap[w] = NoCell
  /\ allocated' = allocated \cup {c}
  /\ thing' = [thing EXCEPT ![c] = NewThing]
  /\ wrap' = [wrap EXCEPT ![w] = c]
  /\ owner' = owner \cup {w}
  /\ UNCHANGED <<typed, deleteAsked, reachedOther>>

(* A call of a method with a userdata, and what it does to the object.     *)
CallOn(w, after) ==
  /\ ValidWrap(w)
  /\ thing' = [thing EXCEPT ![wrap[w]] = after]
  /\ reachedOther' = (reachedOther \/ w \notin owner)

(* CheckCluster, CheckOrigin, CheckBox, GetList, and the wrappers that     *)
(* only look: isValid, tostring, poll, __index and __newindex.             *)
UseThing(w) ==
  /\ CallOn(w, thing[wrap[w]])
  /\ UNCHANGED <<allocated, wrap, owner, typed, deleteAsked>>

EnableGC(w) ==
  /\ \E enable \in BOOLEAN : CallOn(w, [thing[wrap[w]] EXCEPT !.enableGC = enable])
  /\ UNCHANGED <<allocated, wrap, owner, typed, deleteAsked>>

DeleteThing(w) ==
  /\ CallOn(w, [thing[wrap[w]] EXCEPT !.marked = TRUE])
  /\ deleteAsked' = TRUE
  /\ UNCHANGED <<allocated, wrap, owner, typed>>

(* A bug: the object is not asked whether it may be deleted. *)
Unwrapped_Always(x) == [x EXCEPT !.refs = @ - 1, !.marked = x.refs <= 1]

(* gcDeleteWrapper.  refs is signed; here it stays at 0.                   *)
Unwrapped(x) == [x EXCEPT !.refs = IF @ = 0 THEN 0 ELSE @ - 1,
                          !.marked = x.refs <= 1 /\ x.enableGC]

CollectWrap(w) ==
  /\ wrap[w] # NoCell
  /\ thing' = IF ValidWrap(w)
              THEN [thing EXCEPT ![wrap[w]] = Unwrapped(@)] ELSE thing
  /\ wrap' = [wrap EXCEPT ![w] = NoCell]
  /\ owner' = owner \ {w}
  /\ UNCHANGED <<allocated, typed, deleteAsked, reachedOther>>

Orphaned(gone) == { w \in owner : wrap[w] \notin gone }

(* pollingFunction: the marked objects are deleted.                        *)
PollThings ==
  /\ LET gone == { c \in allocated : thing[c].marked } IN
     /\ gone # {}
     /\ allocated' = allocated \ gone
     /\ owner' = Orphaned(gone)
  /\ UNCHANGED <<thing, wrap, typed, deleteAsked, reachedOther>>

(* shutdown: the objects go, and the registered types with the instance;   *)
(* the userdata are collected after that.                                  *)
ShutdownThings ==
  /\ typed
  /\ allocated' = {} /\ typed' = FALSE /\ owner' = {}
  /\ UNCHANGED <<thing, wrap, deleteAsked, reachedOther>>

PvsNext ==
  \/ \E w \in Wraps :
       \/ \E c \in Cells : NewPvs(c, w)
       \/ UseThing(w) \/ EnableGC(w) \/ DeleteThing(w) \/ CollectWrap(w)
  \/ PollThings \/ ShutdownThings

PvsSpec == PvsInit /\ [][PvsNext]_pvsVars

----------------------------------------------------------------------------
(* As long as no script calls delete, a userdata leads to the object it    *)
(* was made for, which lives until the last userdata of it is collected,   *)
(* and for good when a script has forbidden its collection by then:        *)
(* although addresses are used again.                                      *)
LivesWithItsUserdata ==
  ~deleteAsked =>
    /\ ~reachedOther
    /\ \A w \in Wraps : typed /\ wrap[w] # NoCell => w \in owner /\ ValidWrap(w)
    /\ \A c \in allocated : thing[c].marked => thing[c].enableGC /\ thing[c].refs = 0

(* "All attempts to acces it via Lua will be denied since it will be       *)
(* marked as invalid": a userdata of a deleted object reaches none.        *)
DeletedIsDenied == ~reachedOther
=============================================================================
