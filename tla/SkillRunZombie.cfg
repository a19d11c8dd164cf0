SPECIFICATION Spec
CONSTANTS
  Run = {1, 2}
  Skill = {"openai"}
  Stored <- OneSkill
  Typed <- OnePrompt
  Posted = {}
  Nil = Nil
PROPERTY NoZombieRequests
