CONSTANTS
  Slots = {0, 1}
  Wide = {2}
  Tokened = {1, 3}
  MaxCalls = 3
SPECIFICATION Spec
INVARIANTS CountsAgree PopsItsOwn
PROPERTIES ImplementsTaskScope JoinsReturn
