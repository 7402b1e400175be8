------------------------ MODULE MCStatusPagesFaults ------------------------
(***************************************************************************)
(* The instances of MCStatusPages with the record of StatusPagesFaults.    *)
(***************************************************************************)
EXTENDS MCStatusPages, StatusPagesFaults
=============================================================================
