CONSTANT StarDelay = 3
SPECIFICATION StarSpec
INVARIANTS StarTypeOK LiveOnScreen
PROPERTIES NextStarComes
