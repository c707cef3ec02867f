\* What the comment on _stray_prompt_pending says, against the real trailer.
CONSTANTS
  Settings <- MCTimely
  Responses <- MCTrail
  Retries = 1
  ReadTimeout = 6
  Grace = 1
  Backlog = 5
SPECIFICATION Spec
INVARIANT StragglerIsStripped
