SPECIFICATION Spec
CONSTANTS
    Conns <- MCTwo
    Fds = {f1, f2}
    NoFile = NoFile
    Lines <- MCOneLine
    MaxLines <- MCNoLines
    Backlog = 2
    SigPipeFatal = FALSE
    Modules <- MCModules
    UpdateModules <- MCUpdateModules
    ModList <- MCModList
    Reports <- MCReports
    Watched <- MCTwo
    MaxTx = 1
    Text = Text
    End = End
    Nul = Nul
    Written <- MCWritten
INVARIANTS EveryoneKnown
PROPERTIES GoneForgotten NewcomerIntroduced PermissionWithdrawn ImplementsMail
