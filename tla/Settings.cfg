SPECIFICATION Spec
CONSTANTS
  Hosts = {resolver, other}
  NoHost = none
  Listable = {"2101", "2102", "53"}
  Publishers = {"web", "console", "event"}
  Absent = absent
  Names <- SomeNames
  DefaultList <- Caster
  InitialFlash <- Both
  Inputs <- SomeInputs
  MaxCommands = 2
  MaxEvents = 1
INVARIANTS PublishedWhole OnlyAnswersGetIn WebIsGated DefaultStaysOut RestartKeeps ListInForce
PROPERTY RadioFollows
