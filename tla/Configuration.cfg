SPECIFICATION Spec
CONSTANTS
  Invalid = Invalid
  Tables = {"effect", "outputs.model", "outputs.connector"}
  Leaves = {"dimming", "artwork", "typo"}
  Defaults <- TheDefaults
  OutputTables = {"outputs.model", "outputs.connector"}
  OutputLeaves = {"dimming", "artwork"}
  Coerce <- TheCoercion
  MatchKeys <- ByDisplay
  Texts <- TheTexts
  SystemTexts <- TheSystemTexts
  Payloads <- ThePayloads
  KeyLists <- TheKeyLists
INVARIANTS AnswersHold HighestDecides
PROPERTY EditsAreExact
