SPECIFICATION Spec
CONSTANTS
    Conns <- MCThree
    Fds = {f1, f2}
    NoFile = NoFile
    Lines <- MCTwoLines
    MaxLines <- MCNoLines
    Backlog = 2
    SigPipeFatal = FALSE
    Modules <- MCServerName
    UpdateModules <- MCNoModules
    ModList <- MCServerOnly
    Reports = {}
    Watched = {}
    MaxTx = 1
    Text = Text
    End = End
    Nul = Nul
    Written <- MCWritten
PROPERTY PendingAccepted
