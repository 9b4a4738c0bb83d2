\* Two concurrent runs of experts of two steps, one of which is given answers of two
\* calls; and every other component, one after the other.
CONSTANTS
  Parts = {"approval", "index", "retrieval", "prompts", "answering", "tokens", "dialogue", "contexts", "experiments", "masking", "service"}
  None = None
  Runs = {1, 2}
  Tools <- McTools
  Gated <- McGated
  Answers <- McAnswers
  Skills <- McSkills
  MaxSteps = 2
  MaxCalls = 2
  Timeout = 1
SPECIFICATION PartsFairSpec
INVARIANTS ApprovalInv RetrievalInv DomainInv ServingInv
PROPERTIES DecisionsFinal RunsEnd
CHECK_DEADLOCK FALSE
