SPECIFICATION BooksSpec
CONSTANTS
    None = none
    Empty = none
    Nil = none
    Statements <- AllStatements
    KotakSpan = 3
    Unseen = unseen
    Chars <- MCChars
    Coded <- MCCoded
    Tried <- MCTried
    PagesOf <- MCPagesOf
    Lexicon <- MCLexicon
    Dictionary <- MCDictionary
    Noise <- MCNoise
    Business <- MCBusiness
    Before <- MCBefore
    StartsWith <- MCStartsWith
    CategoryWords <- MCCategoryWords
    BankLedger <- Hdfc
    Cash <- CashLedger
    Capital <- CapitalLedger
    Account <- HdfcAccount
    Tokens <- MCTokens
    Refs <- MCRefs
    ReconDays = 3
    ReconPct = 5
    Registers <- MCRegisters
    Loaded <- MCLoaded
    Accepted <- Sheets
    Meanings <- MCMeanings
    RuleBooks <- MCRuleBooks
    Settings <- MCSettings
    Edits <- MCEdits
    Extras <- MCExtras
    Options <- MCOptions
    MaxTurns = 2
INVARIANTS LedgerRead ColumnsRead OwnBank BooksBalance CountsAgree NoBlockingPair
PROPERTIES DupFlags OneSpelling
