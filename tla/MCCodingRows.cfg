SPECIFICATION Spec
CONSTANTS
    Width = 2
    Height = 2
    WidthInMinCbs = 3
    HeightInMinCbs = 3
    CtbDepth = 1
    QpBdOffset = 12
    Layouts <- MCRows
    Qps <- MCQps
    Offsets = {0, 3}
    MaxTus = 2
INVARIANTS QpsAgree ElementsAgree PictureCovered
