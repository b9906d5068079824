\* Roots with three files that may be there, of seven or four texts each.
\* A load ends for good.
CHECK_DEADLOCK FALSE
CONSTANTS
  Words <- MCWords
  Declarations <- MCDeclarations
  Projects <- MCProjects
  StdChildren <- MCStdChildren
  SysCandidates <- MCSysCandidates
SPECIFICATION Spec
INVARIANTS TypeOK DeclaredAreLoaded CyclesFound PrivateStaysHome BindingsDeclared
PROPERTIES Terminates
