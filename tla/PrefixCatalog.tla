---------------------------- MODULE PrefixCatalog ----------------------------
(***************************************************************************)
(* What the prefix database promises its readers, whatever is imported at   *)
(* the same time: while the process runs they are served no library or a    *)
(* whole one that was accepted before, a new one takes the place of the old *)
(* in one step, and once there is one they are never without.               *)
(***************************************************************************)
CONSTANTS Libraries, NoLibrary

VARIABLES running,   \* the process is up
          accepted,  \* the libraries that were ever put in the active place
          library    \* what readers resolve against

catalogVars == <<running, accepted, library>>

CatalogInit ==
  /\ running = FALSE
  /\ accepted \subseteq Libraries
  /\ library = NoLibrary

Accept(d) ==
  /\ running
  /\ accepted' = accepted \union {d}
  /\ UNCHANGED <<running, library>>

Publish(d) ==
  /\ running
  /\ d \in accepted
  /\ library' = d
  /\ UNCHANGED <<running, accepted>>

Begin ==
  /\ ~running
  /\ running' = TRUE
  /\ library' \in accepted \union {NoLibrary}
  /\ UNCHANGED accepted

End ==
  /\ running
  /\ running' = FALSE
  /\ library' = NoLibrary
  /\ UNCHANGED accepted

CatalogNext == Begin \/ End \/ \E d \in Libraries : Accept(d) \/ Publish(d)

CatalogSpec == CatalogInit /\ [][CatalogNext]_catalogVars

=============================================================================
