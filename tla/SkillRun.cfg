SPECIFICATION Spec
CONSTANTS
  Run = {1, 2}
  Skill = {"openai", "anthropic", "vertex", "marked", "astray", "broken"}
  Stored <- AllSkills
  Typed <- TypedPrompts
  Posted <- PostedPrompts
  Nil = Nil
INVARIANTS TypeOK EgressIsClean ProvidersKeepNothing BlockMeansUnsent LockIsExecution
PROPERTY ExecutionEnds
