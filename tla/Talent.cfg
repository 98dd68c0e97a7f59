SPECIFICATION TalentSpec
CONSTANTS
  World = {"core", "house"}
  Vendored = "core"
  Letter = {"A", "C", "E"}
  Method = {"Priority", "Karma"}
  NameOrder <- MCOrder
  TalentsAt <- MCTalentsAt
  StartAt <- MCStartAt
  KeyOf <- MCKeyOf
  AllowedTo <- MCAllowed
  Species <- MCSpecies
  Shapeshifters = {"Fox"}
  FormsOf <- MCForms
  SpeciesFloor <- MCFloor
  Least <- MCLeast
  Cap = 3
  Starting <- MCStarting
PROPERTIES
  AnswersAreSound
  StartIsFree
  TalentIsKept
