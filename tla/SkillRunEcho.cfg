SPECIFICATION Spec
CONSTANTS
  Run = {1, 2}
  Skill = {"anthropic"}
  Stored <- QuotingSkill
  Typed <- OnePrompt
  Posted = {}
  Nil = Nil
INVARIANT LoggedMeansUnsent
