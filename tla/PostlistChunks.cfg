SPECIFICATION Spec
CONSTANTS ChunkSize = 2
          MaxDocid = 4
          Wdf = {1, 2}
          MaxBatch = 3
          Kinds = {"term", "doclen"}
          QuietLoops = TRUE
          NoList = NoList
INVARIANTS ListAsChanged ChunksInOrder SkipFinds  
CHECK_DEADLOCK FALSE
