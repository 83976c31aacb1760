------------------------------- MODULE MCMpi -------------------------------
(***************************************************************************)
(* TLC instance of the two MPI programs: mpirun starts one or the other,   *)
(* with arguments taken from the constants.  The variables of the program  *)
(* that does not run stay as they are.                                     *)
(***************************************************************************)
EXTENDS MpiStatic, MpiDynamic

VARIABLE program

vars == <<program, worldVars, staticVars, dynamicVars>>

\* The chunk size is an argument of the dynamic program only.
Init ==
  /\ WorldInit /\ StaticInit /\ DynamicInit
  /\ program \in {"static", "dynamic"}
  /\ program = "static" => chunk = CHOOSE c \in ChunkSizes : TRUE

Step ==
  /\ \/ program = "static" /\ StaticNext /\ UNCHANGED dynamicVars
     \/ program = "dynamic" /\ DynamicNext /\ UNCHANGED staticVars
  /\ UNCHANGED program

Next == Step \/ (Ended /\ UNCHANGED vars)

\* The ranks run and MPI delivers: something that can happen does.
Spec == Init /\ [][Next]_vars /\ WF_vars(Next)

\* The programs end, whatever check fails, but for the dynamic one with a chunk
\* size of 0, which then hands out nothing for ever.
Terminates ==
  (program = "static" \/ chunk > 0 \/ total = 0) => <>Ended
=============================================================================
