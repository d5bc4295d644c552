SPECIFICATION Spec
CONSTANTS TotalClusters = 6
          NumFats = 2
          ClusterBytes = 2
          StartOf <- MCStartOf
          SizeOf <- MCSizeOf
          FileOf <- OneHandleEach
          t1 = t1
          t2 = t2
          Threads <- TwoThreads
          Ranges <- MCRanges
          MaxCalls = 3
          MaxFailures = 1
CHECK_DEADLOCK FALSE
INVARIANTS ChainsSound NoClusterLost BytesKept ReadsSeeWrites
PROPERTY IoReturns
