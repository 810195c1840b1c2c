---------------------------- MODULE MCFileTransfer ----------------------------
(* One file that either the local user or another node uploads.  Snapshots   *)
(* carry the row of the node that uploaded it and of a node that is still    *)
(* downloading it.                                                           *)
EXTENDS FileTransfer

MCPostOf == [f \in File |-> CHOOSE p \in Post : TRUE]

MCOffers == [f \in File |->
    {[path |-> "uploads", status |-> "available", ticket |-> TRUE],
     [path |-> "downloads", status |-> "downloading", ticket |-> TRUE]}]
=============================================================================
