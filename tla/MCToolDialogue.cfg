SPECIFICATION Spec
CONSTANTS
  look = look
  book = book
  Functions = {look, book}
  Offers = {{look}, {look, book}}
  Providers = {"openai", "anthropic", "bedrock", "gemini"}
  Answers <- MCAnswers
  MaxMessages = 9
INVARIANTS TurnsAlternate ResultsMeetCalls ConversationKept RescuedOnce LatestNamed
CHECK_DEADLOCK FALSE
