------------------------------ MODULE MCViewing ------------------------------
(* TLC instance of the household's sign-in and of a profile's viewing.  They *)
(* share no state, so a behaviour is one of one part and the other rests in  *)
(* its initial state.                                                        *)
EXTENDS Household, ViewingProgress

VARIABLE part

profileVars == <<part, houseVars, viewingVars>>

ProfilesInit == part \in {"house", "viewing"} /\ HouseInit /\ ViewingInit

ProfilesNext ==
  /\ UNCHANGED part
  /\ \/ part = "house" /\ HouseNext /\ UNCHANGED viewingVars
     \/ part = "viewing" /\ ViewingNext /\ UNCHANGED houseVars

ProfilesSpec == ProfilesInit /\ [][ProfilesNext]_profileVars
=============================================================================
