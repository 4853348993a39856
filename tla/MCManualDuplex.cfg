\* Two invocations, three pages, one restart of the service.
SPECIFICATION FairSpec
CONSTANTS
  Pages = 3
  MaxRuns = 2
  MaxRestarts = 1
INVARIANTS
  CompletedIsRight
  WhatPrintsIsToldToStop
PROPERTIES
  BacksMeetTheirFronts
  DocumentsStayWithInstance
  WorkflowEnds
CHECK_DEADLOCK FALSE
