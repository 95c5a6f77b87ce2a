-------------------------- MODULE MCDynamicBackend --------------------------
(* Model-checking instance of DynamicBackend: users and goroutines are     *)
(* sets of model values given in the .cfg files; the backend templates are *)
(* those createDefaultConfig writes to a fresh multitenant.json.           *)
EXTENDS DynamicBackend, TLC

\* createDefaultConfig (config/multitenant.go) defines these templates.
MCTemplates == {"posix", "cephfs", "lustre", "nfs", "minio"}

\* A multitenant.json that also names the unimplemented rustfs backend.
MCTemplatesWithRustFS == MCTemplates \cup {"rustfs"}

\* Users and goroutines are interchangeable: nothing in the code depends on
\* an access key's value or on which goroutine serves a request.
MCSymmetry == Permutations(Users) \cup Permutations(Procs)

=============================================================================
