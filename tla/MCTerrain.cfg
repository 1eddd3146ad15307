\* Two to six chunks and two changes of blocks, with the player anywhere.
SPECIFICATION FairSpec
CONSTANTS
  Build <- MCBuild
  Sizes <- MCSizes
  Edited <- MCEdited
  Visited <- MCVisited
  MaxEdits = 2
INVARIANTS TypeOK StaleIsDirty PassedIsBuilt FinishedIsShown
PROPERTY ShownAtLast
\* The program ends where the copy of a chunk leaves the workspace.
CHECK_DEADLOCK FALSE
