------------------------------ MODULE MCImporter ------------------------------
(* An instance of Importer: a thread of three posts, the third of which      *)
(* refers to both others on 4chan and answers the second on Reddit.          *)
EXTENDS Importer

CONSTANTS w1, w2

MCRefs == [p \in Platform |->
              [e \in Ext |-> CASE e = 1 -> {}
                               [] e = 2 -> {1}
                               [] OTHER -> IF p = "4chan" THEN 1 .. (e - 1)
                                           ELSE {e - 1}]]
=============================================================================
