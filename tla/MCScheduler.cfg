CONSTANTS
  N = 2
  MaxThreads = 4
SPECIFICATION FairSpec
   
PROPERTIES TerminatedForever 
