CONSTANTS
  N = 2
  Wrap = 6
  Elements = {a, b}
  Raw = Raw
  Garbage = Garbage
  MaxBatch = 3
  Batches <- MCBatches
  Limits = {0, 2}
  ProducerOps = {"try_emplace", "try_emplace_range"}
  ConsumerOps = {"try_dequeue", "try_dequeue_range", "consume_up_to", "consume_all", "clear"}
  LateLoads = FALSE
  TriviallyCopyable = FALSE
SPECIFICATION Spec
INVARIANT ConsumeAllEmpties
