-------------------------------- MODULE Api --------------------------------
(***************************************************************************)
(* A request as its client sees it (src/client.rs): the store operation    *)
(* that a handler runs (src/apiserver/handlers.rs), the HTTP answer it is  *)
(* turned into, and the error the client turns that into again.            *)
(*                                                                         *)
(* Store.tla has the resourceVersions themselves.  Here a write that       *)
(* carries a version says only whether that version is still the stored    *)
(* one: versions are never used twice (UpdatesHitWhatWasRead of Watch.tla),*)
(* so a copy that was read is current until the object's next write, and   *)
(* never again after it.  A redirect to the leader does not show: 307      *)
(* keeps method and body, and the HTTP library follows it.                 *)
(***************************************************************************)
CONSTANT Absent    \* what a map holds for a missing key

(* create: of create_prestamped, what decides the answer.                  *)
CreateCheck(stored) == IF stored = Absent THEN "Ok" ELSE "AlreadyExists"

(* replace_spec, replace_status, delete: load_required and check_rv.       *)
RvCheck(stored, current) ==
    IF stored = Absent THEN "NotFound" ELSE IF current THEN "Ok" ELSE "Conflict"

(* From<StoreError>: what is inside the store's database stays inside.     *)
FromStoreError(e) == IF e \in {"Sled", "Json"} THEN "Internal" ELSE e

(* IntoResponse: two errors share a status and differ in the reason.  200  *)
(* stands for any success.                                                 *)
IntoResponse(e) ==
    [status |-> CASE e = "Ok"                             -> 200
                  [] e = "NotFound"                       -> 404
                  [] e \in {"AlreadyExists", "Conflict"}  -> 409
                  [] e = "BadRequest"                     -> 400
                  [] OTHER                                -> 500,
     reason |-> e]

(* check_status and map_envelope.                                          *)
MapEnvelopeByStatus(res) ==
    CASE res.status = 200 -> "Ok"
      [] res.status = 404 -> "NotFound"
      [] res.status = 409 -> "Conflict"
      [] OTHER            -> "Http"
MapEnvelope(res) ==
    CASE res.status = 200                                   -> "Ok"
      [] res.status = 404                                   -> "NotFound"
      [] res.status = 409 /\ res.reason = "AlreadyExists"   -> "AlreadyExists"
      [] res.status = 409 /\ res.reason # "AlreadyExists"   -> "Conflict"
      [] OTHER                                              -> "Http"

(* The Result of create_resource, put_resource, delete_resource.           *)
ClientResult(e) == MapEnvelope(IntoResponse(FromStoreError(e)))
=============================================================================
