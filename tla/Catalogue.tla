------------------------------ MODULE Catalogue ------------------------------
(***************************************************************************)
(* What the hub promises of its materials, file by file: a file is not in  *)
(* the catalogue, waits for an administrator, or is published.  It is      *)
(* submitted at most once at a time, published only from the queue, and    *)
(* may be submitted afresh once it was withdrawn.                          *)
(***************************************************************************)
CONSTANT Contents

VARIABLE shelf      \* per content: where it stands

Shelves == {"none", "pending", "approved"}

CatalogueInit == shelf = [c \in Contents |-> "none"]

Submit(c) == shelf[c] = "none" /\ shelf' = [shelf EXCEPT ![c] = "pending"]
Publish(c) == shelf[c] = "pending" /\ shelf' = [shelf EXCEPT ![c] = "approved"]
Withdraw(c) == shelf[c] # "none" /\ shelf' = [shelf EXCEPT ![c] = "none"]

CatalogueNext == \E c \in Contents : Submit(c) \/ Publish(c) \/ Withdraw(c)

CatalogueSpec == CatalogueInit /\ [][CatalogueNext]_shelf

=============================================================================
