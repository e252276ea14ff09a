\* As StorageTarget, with a connection string left in the shell.
CONSTANTS
    NoFile = NoFile
    Accounts <- MCAccounts
    Parameters <- MCParameters
    Texts <- MCTexts
    Arguments <- MCArguments
SPECIFICATION SpecTarget
INVARIANT ShellWins
