------------------------------- MODULE Store -------------------------------
(***************************************************************************)
(* ResourceStore of src/apiserver/storage.rs: the objects of one kind and  *)
(* the resourceVersion counter that all kinds share.  Every operation is   *)
(* one sled transaction (check, bump_rv, write), so each is an operator    *)
(* from a store to an outcome: the store afterwards and either the event   *)
(* to emit or the error.                                                   *)
(*                                                                         *)
(* The parts of an object that matter here are who it is (uid), its spec,  *)
(* its status and its resourceVersion.  rv 0 stands for a missing one.     *)
(***************************************************************************)
EXTENDS Integers

CONSTANTS
    Name,     \* object names
    Value,    \* contents of a spec or of a status
    NoValue,  \* the status of an object that has none
    Absent    \* the entry of a name that holds no object

ASSUME ValueAssumption == NoValue \notin Value

Object == [uid : Nat, spec : Value, status : Value \cup {NoValue}, rv : Nat]
Event  == [type : {"Added", "Modified", "Deleted"}, name : Name, object : Object]

ASSUME AbsentAssumption == Absent \notin Object /\ Absent \notin Event

EmptyStore == [rv |-> 0, objs |-> [n \in Name |-> Absent]]

(* bump_rv: one counter for everything, never reused.                      *)
BumpRvPerObject(st, n) == IF st.objs[n] = Absent THEN 1 ELSE st.objs[n].rv + 1
BumpRv(st, n) == st.rv + 1

(* A transaction that commits: `obj` is stored under n with the new rv.    *)
Stored(st, n, type, obj) ==
    LET o == [obj EXCEPT !.rv = BumpRv(st, n)]
    IN  [result |-> "Ok",
         store  |-> [rv |-> o.rv, objs |-> [st.objs EXCEPT ![n] = o]],
         event  |-> [type |-> type, name |-> n, object |-> o]]

Refused(st, error) == [result |-> error, store |-> st]

(* create_prestamped *)
CreatePrestamped(st, n, obj) ==
    IF st.objs[n] # Absent
    THEN Refused(st, "AlreadyExists")
    ELSE Stored(st, n, "Added", obj)

(* load_required and check_rv.                                             *)
CheckRv(st, n, rv) ==
    IF st.objs[n] = Absent THEN "NotFound"
    ELSE IF st.objs[n].rv # rv THEN "Conflict" ELSE "Ok"

(* replace_spec: identity and status stay those of the stored object.      *)
ReplaceSpec(st, n, new) ==
    IF CheckRv(st, n, new.rv) # "Ok"
    THEN Refused(st, CheckRv(st, n, new.rv))
    ELSE Stored(st, n, "Modified", [new EXCEPT !.uid = st.objs[n].uid,
                                               !.status = st.objs[n].status])

(* replace_status: everything else stays.                                  *)
ReplaceStatus(st, n, rv, status) ==
    IF CheckRv(st, n, rv) # "Ok"
    THEN Refused(st, CheckRv(st, n, rv))
    ELSE Stored(st, n, "Modified", [st.objs[n] EXCEPT !.status = status])

(* delete: the event carries the object under a new rv.                    *)
Delete(st, n, rv) ==
    IF CheckRv(st, n, rv) # "Ok"
    THEN Refused(st, CheckRv(st, n, rv))
    ELSE [Stored(st, n, "Deleted", st.objs[n]) EXCEPT !.store.objs[n] = Absent]
=============================================================================
